---- MODULE Spec2Model ----
(***************************************************************************)
(* Price-resolution engine of the price-validation system: the smart-fast  *)
(* InsuranceItemPricer (query cache, provider rounds, tiered selector).    *)
(*                                                                         *)
(* Conventions.  A JavaScript string is a sequence of one-character        *)
(* strings.  Money is an integer number of cents; the price window         *)
(* [min, max] is kept multiplied by 100 (cents * 100) so that              *)
(* target * (1 -/+ tolerance/100) stays exact.                             *)
(***************************************************************************)
EXTENDS Integers, Sequences, FiniteSets, TLC

(* Static tables of the pricer                                             *)

UpperChars == <<"A","B","C","D","E","F","G","H","I","J","K","L","M","N","O","P","Q","R","S","T","U","V","W","X","Y","Z">>

LowerChars == <<"a","b","c","d","e","f","g","h","i","j","k","l","m","n","o","p","q","r","s","t","u","v","w","x","y","z">>

DigitChars == <<"0","1","2","3","4","5","6","7","8","9">>

trustedSources ==
  << [domain |-> "amazon.com", aliases |-> << <<"A","m","a","z","o","n">>, <<"a","m","a","z","o","n",".","c","o","m">>, <<"A","m","a","z","o","n",".","c","o","m">>, <<"A","m","a","z","o","n",".","c","o","m"," ","-"," ","S","e","l","l","e","r">> >>],
     [domain |-> "walmart.com", aliases |-> << <<"W","a","l","m","a","r","t">>, <<"w","a","l","m","a","r","t",".","c","o","m">>, <<"W","a","l","m","a","r","t"," ","-"," ","S","e","l","l","e","r">>, <<"W","a","l","m","a","r","t"," ","-"," ","R","R","X">> >>],
     [domain |-> "target.com", aliases |-> << <<"T","a","r","g","e","t">>, <<"t","a","r","g","e","t",".","c","o","m">> >>],
     [domain |-> "homedepot.com", aliases |-> << <<"H","o","m","e"," ","D","e","p","o","t">>, <<"h","o","m","e","d","e","p","o","t",".","c","o","m">>, <<"T","h","e"," ","H","o","m","e"," ","D","e","p","o","t">> >>],
     [domain |-> "lowes.com", aliases |-> << <<"L","o","w","e","'","s">>, <<"l","o","w","e","s",".","c","o","m">>, <<"L","o","w","e","s">> >>],
     [domain |-> "bestbuy.com", aliases |-> << <<"B","e","s","t"," ","B","u","y">>, <<"b","e","s","t","b","u","y",".","c","o","m">>, <<"B","e","s","t","B","u","y">> >>],
     [domain |-> "wayfair.com", aliases |-> << <<"W","a","y","f","a","i","r">>, <<"w","a","y","f","a","i","r",".","c","o","m">> >>],
     [domain |-> "costco.com", aliases |-> << <<"C","o","s","t","c","o">>, <<"c","o","s","t","c","o",".","c","o","m">> >>],
     [domain |-> "overstock.com", aliases |-> << <<"O","v","e","r","s","t","o","c","k">>, <<"o","v","e","r","s","t","o","c","k",".","c","o","m">>, <<"O","v","e","r","s","t","o","c","k",".","c","o","m">> >>] >>

containsChecks ==
  << [fragment |-> <<"a","m","a","z","o","n">>, domain |-> "amazon.com"],
     [fragment |-> <<"w","a","l","m","a","r","t">>, domain |-> "walmart.com"],
     [fragment |-> <<"t","a","r","g","e","t">>, domain |-> "target.com"],
     [fragment |-> <<"h","o","m","e"," ","d","e","p","o","t">>, domain |-> "homedepot.com"],
     [fragment |-> <<"h","o","m","e","d","e","p","o","t">>, domain |-> "homedepot.com"],
     [fragment |-> <<"l","o","w","e">>, domain |-> "lowes.com"],
     [fragment |-> <<"b","e","s","t"," ","b","u","y">>, domain |-> "bestbuy.com"],
     [fragment |-> <<"b","e","s","t","b","u","y">>, domain |-> "bestbuy.com"],
     [fragment |-> <<"w","a","y","f","a","i","r">>, domain |-> "wayfair.com"],
     [fragment |-> <<"c","o","s","t","c","o">>, domain |-> "costco.com"],
     [fragment |-> <<"o","v","e","r","s","t","o","c","k">>, domain |-> "overstock.com"] >>

fillerTerms == << <<"n","e","w">>, <<"m","a","i","l"," ","b","o","x">>, <<"p","o","s","t","a","l"," ","b","o","x">>, <<"h","e","a","v","y"," ","d","u","t","y">>, <<"s","e","c","u","r","i","t","y">> >>

subCategoryRules ==
  << [words |-> << <<"l","e","t","t","e","r">>, <<"b","o","x">> >>, label |-> "Letter Box /HSW"],
     [words |-> << <<"f","a","n">>, <<"t","o","w","e","r">> >>, label |-> "Fans /HSW"],
     [words |-> << <<"d","e","h","u","m","i","d","i","f","i","e","r">> >>, label |-> "Dehumidifier /HSW"],
     [words |-> << <<"w","i","n","d","o","w">>, <<"a","c">> >>, label |-> "Window AC /HSW"],
     [words |-> << <<"t","o","i","l","e","t">>, <<"b","r","u","s","h">> >>, label |-> "Bathroom Accessories /HSW"] >>

s_amazon_slash == <<"a","m","a","z","o","n",".","c","o","m","/">>

s_dp == <<"/","d","p","/">>

s_aclk == <<"g","o","o","g","l","e",".","c","o","m","/","a","c","l","k">>

s_amazon_com == <<"a","m","a","z","o","n",".","c","o","m">>

s_manual == <<"M","a","n","u","a","l"," ","V","a","l","i","d","a","t","i","o","n"," ","R","e","q","u","i","r","e","d">>

---------------------------------------------------------------------------
(* String primitives                                                       *)

Min2(a, b) == IF a < b THEN a ELSE b

Max2(a, b) == IF a > b THEN a ELSE b

Abs(x) == IF x < 0 THEN -x ELSE x

SeqToSet(s) == { s[i] : i \in 1..Len(s) }

WhitespaceChars == {" ", "\t", "\n", "\r"}

QuoteChars == {"\"", "'"}

WordChars == SeqToSet(UpperChars) \cup SeqToSet(LowerChars) \cup SeqToSet(DigitChars) \cup {"_"}

IsWordChar(c) == c \in WordChars

UpperSet == SeqToSet(UpperChars)

LowerOfUpper == [c \in UpperSet |-> LowerChars[CHOOSE i \in 1..Len(UpperChars) : UpperChars[i] = c]]

ToLowerChar(c) == IF c \in UpperSet THEN LowerOfUpper[c] ELSE c

toLowerCase(s) == [i \in 1..Len(s) |-> ToLowerChar(s[i])]

\* String.prototype.substring(0, n)
substring0(s, n) == SubSeq(s, 1, Min2(n, Len(s)))

\* String.prototype.includes
includes(s, sub) == \E i \in 1..(Len(s) - Len(sub) + 1) : SubSeq(s, i, i + Len(sub) - 1) = sub

RECURSIVE DropLeadingWs(_)
DropLeadingWs(s) ==
  IF s # <<>> /\ Head(s) \in WhitespaceChars THEN DropLeadingWs(Tail(s)) ELSE s

RECURSIVE DropTrailingWs(_)
DropTrailingWs(s) ==
  IF s # <<>> /\ s[Len(s)] \in WhitespaceChars THEN DropTrailingWs(SubSeq(s, 1, Len(s) - 1)) ELSE s

\* String.prototype.trim
trim(s) == DropTrailingWs(DropLeadingWs(s))

\* replace(/\s+/g, ' ')
RECURSIVE CollapseWhitespace(_)
CollapseWhitespace(s) ==
  IF s = <<>> THEN <<>>
  ELSE IF Head(s) \in WhitespaceChars
    THEN <<" ">> \o CollapseWhitespace(DropLeadingWs(Tail(s)))
    ELSE <<Head(s)>> \o CollapseWhitespace(Tail(s))

\* replace(/["']/g, '')
StripQuotes(s) == SelectSeq(s, LAMBDA c : c \notin QuoteChars)

sanitizeQuery(raw) == trim(StripQuotes(CollapseWhitespace(raw)))

\* Number -> string for whole numbers (String(n))
RECURSIVE IntStr(_)
IntStr(n) == IF n < 10 THEN <<DigitChars[n + 1]>> ELSE IntStr(n \div 10) \o <<DigitChars[(n % 10) + 1]>>

\* String(amount) for an amount held in cents: 10000 -> "100", 4950 -> "49.5"
MoneyStr(c) ==
  IntStr(c \div 100) \o
    (IF c % 100 = 0 THEN <<>>
     ELSE IF c % 10 = 0 THEN <<".", DigitChars[((c % 100) \div 10) + 1]>>
     ELSE <<".", DigitChars[((c % 100) \div 10) + 1], DigitChars[(c % 10) + 1]>>)

---------------------------------------------------------------------------
(* Values of the optional target price: null or a number of cents          *)

NullTarget == [null |-> TRUE, v |-> 0]

Target(v) == [null |-> FALSE, v |-> v]

\* JavaScript truthiness of targetPrice: null and 0 are falsy
Truthy(t) == ~t.null /\ t.v # 0

TargetStr(t) == IF t.null THEN <<"n","u","l","l">> ELSE MoneyStr(t.v)

---------------------------------------------------------------------------
(* TrustedSourceResolver                                                   *)

\* this.trustedSourceMap: lower-cased alias -> domain, built in the constructor
trustedSourceMap ==
  UNION { { <<toLowerCase(trustedSources[d].aliases[a]), trustedSources[d].domain>> :
              a \in 1..Len(trustedSources[d].aliases) } : d \in 1..Len(trustedSources) }

NoDomain == "null"

\* the resolver without the contains checks
isTrustedSourceExactOnly(sourceField) ==
  IF sourceField = <<>> THEN NoDomain
  ELSE LET direct == { e \in trustedSourceMap : e[1] = toLowerCase(sourceField) }
       IN IF direct # {} THEN (CHOOSE e \in direct : TRUE)[2] ELSE NoDomain

isTrustedSourceFast(sourceField) ==
  IF sourceField = <<>> THEN NoDomain
  ELSE LET sourceLower == toLowerCase(sourceField)
           direct == { e \in trustedSourceMap : e[1] = sourceLower }
           hitsAt == { i \in 1..Len(containsChecks) : includes(sourceLower, containsChecks[i].fragment) }
       IN IF direct # {} THEN (CHOOSE e \in direct : TRUE)[2]
          ELSE IF hitsAt # {}
            THEN containsChecks[CHOOSE i \in hitsAt : \A j \in hitsAt : i <= j].domain
            ELSE NoDomain

\* src/models/OptimizedInsuranceItemPricer.js: the map is keyed by the aliases as
\* written, without "Walmart - Seller" and "Overstock.com", and is read with the raw field
optimizedSourceMap ==
  { e \in UNION { { <<trustedSources[d].aliases[a], trustedSources[d].domain>> :
                     a \in 1..Len(trustedSources[d].aliases) } : d \in 1..Len(trustedSources) } :
      e[1] \notin { <<"W","a","l","m","a","r","t"," ","-"," ","S","e","l","l","e","r">>,
                    <<"O","v","e","r","s","t","o","c","k",".","c","o","m">> } }

getTrustedSourceFast(sourceField) ==
  IF sourceField = <<>> THEN NoDomain
  ELSE LET direct == { e \in optimizedSourceMap : e[1] = sourceField }
           sourceLower == toLowerCase(sourceField)
           hitsAt == { i \in 1..Len(containsChecks) : includes(sourceLower, containsChecks[i].fragment) }
       IN IF direct # {} THEN (CHOOSE e \in direct : TRUE)[2]
          ELSE IF hitsAt # {}
            THEN containsChecks[CHOOSE i \in hitsAt : \A j \in hitsAt : i <= j].domain
            ELSE NoDomain

getSubCategory(description) ==
  LET desc == toLowerCase(description)
      matching == { i \in 1..Len(subCategoryRules) :
                      \A w \in 1..Len(subCategoryRules[i].words) : includes(desc, subCategoryRules[i].words[w]) }
  IN IF matching = {} THEN "Other /HSW"
     ELSE subCategoryRules[CHOOSE i \in matching : \A j \in matching : i <= j].label

---------------------------------------------------------------------------
(* CandidateExtractor                                                      *)

NaN == [nan |-> TRUE, v |-> 0]

Num(v) == [nan |-> FALSE, v |-> v]

RECURSIVE DigitsValue(_)
DigitsValue(ds) ==
  IF ds = <<>> THEN 0
  ELSE 10 * DigitsValue(SubSeq(ds, 1, Len(ds) - 1))
         + ((CHOOSE i \in 1..10 : DigitChars[i] = ds[Len(ds)]) - 1)

RECURSIVE LeadingDigits(_)
LeadingDigits(s) ==
  IF s # <<>> /\ Head(s) \in SeqToSet(DigitChars) THEN <<Head(s)>> \o LeadingDigits(Tail(s)) ELSE <<>>

\* parseFloat of a string, in cents (fraction digits beyond the second are dropped)
parseFloatStr(str) ==
  LET s0   == DropLeadingWs(str)
      neg  == s0 # <<>> /\ Head(s0) = "-"
      s1   == IF s0 # <<>> /\ Head(s0) \in {"-", "+"} THEN Tail(s0) ELSE s0
      ip   == LeadingDigits(s1)
      rest == SubSeq(s1, Len(ip) + 1, Len(s1))
      fp   == IF rest # <<>> /\ Head(rest) = "." THEN LeadingDigits(Tail(rest)) ELSE <<>>
      fp2  == SubSeq(fp \o <<"0", "0">>, 1, 2)
      mag  == 100 * DigitsValue(ip) + DigitsValue(fp2)
  IN IF ip = <<>> /\ fp = <<>> THEN NaN ELSE Num(IF neg THEN -mag ELSE mag)

\* extracted_price as the provider sends it: a number, a string, or absent
PriceNum(c) == [t |-> "num", n |-> c, s |-> <<>>]

PriceStr(s) == [t |-> "str", n |-> 0, s |-> s]

PriceAbsent == [t |-> "absent", n |-> 0, s |-> <<>>]

\* parseFloat(r.extracted_price || 0)
parsePrice(ep) ==
  IF ep.t = "num" THEN Num(ep.n)
  ELSE IF ep.t = "str" /\ ep.s # <<>> THEN parseFloatStr(ep.s)
  ELSE Num(0)

\* a link as the URL parser sees it: parses = new URL(link) succeeds,
\* adurl = url.searchParams.get('adurl') (empty when the parameter is missing)
Link(text, parses, adurl) == [text |-> text, parses |-> parses, adurl |-> adurl]

NoLink == Link(<<>>, FALSE, <<>>)

\* decodeURIComponent throws URIError on a truncated percent escape
decodeThrows(s) == \E i \in 1..Len(s) : s[i] = "%" /\ i + 2 > Len(s)

getDirectUrl(r) ==
  IF r.link.text # <<>> /\ includes(r.link.text, s_amazon_slash) /\ includes(r.link.text, s_dp)
    THEN r.link.text
  ELSE IF r.link.text # <<>> /\ includes(r.link.text, s_aclk) /\ r.link.parses
          /\ r.link.adurl # <<>> /\ includes(r.link.adurl, s_amazon_com)
          /\ ~decodeThrows(r.link.adurl)
    THEN r.link.adurl
  ELSE IF r.product_link # <<>> THEN r.product_link
  ELSE IF r.link.text # <<>> THEN r.link.text
  ELSE s_manual

\* the price window of findBestPrice, both bounds multiplied by 100
NoMax == 99999 * 100 * 100

\* lines 63-65 are evaluated in IEEE-754 doubles: the sign of (computed bound - exact
\* bound) for the targets 50 and 100. 100 * (1 + 0.1) is 110.00000000000001 and
\* 100 * (1 + 0.15) is 114.99999999999999 (55.00000000000001 and 57.49999999999999
\* for 50); with the other tolerances used here (0, 5, 20, 100, 150) both bounds are exact
doubleRounding(targetPrice, tolerance) ==
  IF targetPrice.v \in {5000, 10000} /\ tolerance = 10 THEN [min |-> 0, max |-> 1]
  ELSE IF targetPrice.v \in {5000, 10000} /\ tolerance = 15 THEN [min |-> 0, max |-> -1]
  ELSE [min |-> 0, max |-> 0]

minPriceOf(targetPrice, tolerance) ==
  IF Truthy(targetPrice)
    THEN Max2(0, targetPrice.v * (100 - tolerance) + doubleRounding(targetPrice, tolerance).min)
    ELSE 0

maxPriceOf(targetPrice, tolerance) ==
  IF Truthy(targetPrice)
    THEN targetPrice.v * (100 + tolerance) + doubleRounding(targetPrice, tolerance).max
    ELSE NoMax

PenaltyScore == 999999 * 100

calculatePriceScore(price, targetPrice, tolerance) ==
  IF ~Truthy(targetPrice) THEN price
  ELSE IF price * 100 >= targetPrice.v * 100 - targetPrice.v * tolerance
          /\ price * 100 <= targetPrice.v * 100 + targetPrice.v * tolerance
    THEN price
    ELSE PenaltyScore

MaxResults == 25

MaxCandidates == 20

\* the body of the for-loop of performSearchSmartFast, over the hits left
\* extraction that checks the retailer only
RECURSIVE extractCandidatesAnyPrice(_, _, _, _, _, _)
extractCandidatesAnyPrice(results, acc, min, max, targetPrice, tolerance) ==
  IF results = <<>> THEN acc
  ELSE LET r == Head(results)
           price == parsePrice(r.extracted_price)
           trustedDomain == isTrustedSourceFast(r.source)
       IN IF trustedDomain # NoDomain
            THEN LET c == [price |-> price.v,
                           source |-> trustedDomain,
                           url |-> getDirectUrl(r),
                           description |-> r.title,
                           priceScore |-> calculatePriceScore(price.v, targetPrice, tolerance),
                           isInRange |-> price.v * 100 >= min /\ price.v * 100 <= max,
                           isAmazon |-> trustedDomain = "amazon.com",
                           sourceField |-> r.source,
                           strategy |-> ""]
                     acc2 == Append(acc, c)
                 IN IF Len(acc2) >= MaxCandidates THEN acc2
                    ELSE extractCandidatesAnyPrice(Tail(results), acc2, min, max, targetPrice, tolerance)
            ELSE extractCandidatesAnyPrice(Tail(results), acc, min, max, targetPrice, tolerance)

RECURSIVE extractCandidates(_, _, _, _, _, _)
extractCandidates(results, acc, min, max, targetPrice, tolerance) ==
  IF results = <<>> THEN acc
  ELSE LET r == Head(results)
           price == parsePrice(r.extracted_price)
           trustedDomain == isTrustedSourceFast(r.source)
       IN IF trustedDomain # NoDomain /\ ~price.nan /\ price.v > 0
            THEN LET c == [price |-> price.v,
                           source |-> trustedDomain,
                           url |-> getDirectUrl(r),
                           description |-> r.title,
                           priceScore |-> calculatePriceScore(price.v, targetPrice, tolerance),
                           isInRange |-> price.v * 100 >= min /\ price.v * 100 <= max,
                           isAmazon |-> trustedDomain = "amazon.com",
                           sourceField |-> r.source,
                           strategy |-> ""]
                     acc2 == Append(acc, c)
                 IN IF Len(acc2) >= MaxCandidates THEN acc2
                    ELSE extractCandidates(Tail(results), acc2, min, max, targetPrice, tolerance)
            ELSE extractCandidates(Tail(results), acc, min, max, targetPrice, tolerance)

\* a provider answer: kind "ok" carries shopping_results; "noresults" has no
\* shopping_results field; "timeout" (ECONNABORTED), "error" (network or
\* non-2xx) and "malformed" (no data object) make the try block throw
Response(kind, hits) == [kind |-> kind, hits |-> hits]

\* the outcome of an async call: a returned value, or an exception thrown
Returned(v) == [threw |-> FALSE, value |-> v]

Thrown == [threw |-> TRUE, value |-> <<>>]

\* the search without its catch block
performSearchRethrows(resp, min, max, targetPrice, tolerance) ==
  IF resp.kind \in {"timeout", "error", "malformed"} THEN Thrown
  ELSE LET results == SubSeq(resp.hits, 1, Min2(MaxResults, Len(resp.hits)))
       IN IF resp.kind = "noresults" \/ results = <<>> THEN Returned(<<>>)
          ELSE Returned(extractCandidates(results, <<>>, min, max, targetPrice, tolerance))

\* the try block throws on the three failing kinds and the catch block returns []
performSearchSmartFast(resp, min, max, targetPrice, tolerance) ==
  IF resp.kind \in {"timeout", "error", "malformed"} THEN Returned(<<>>)
  ELSE LET results == SubSeq(resp.hits, 1, Min2(MaxResults, Len(resp.hits)))
       IN IF resp.kind = "noresults" \/ results = <<>> THEN Returned(<<>>)
          ELSE Returned(extractCandidates(results, <<>>, min, max, targetPrice, tolerance))

---------------------------------------------------------------------------
(* TieredSelector                                                          *)

\* the "Quick deduplication" loop: first occurrence of each price-source key
\* deduplication in which a later candidate replaces the earlier one with its key
RECURSIVE dedupeLastWins(_, _, _)
dedupeLastWins(candidates, seen, uniqueCandidates) ==
  IF candidates = <<>> THEN uniqueCandidates
  ELSE LET c == Head(candidates)
           key == <<c.price, c.source>>
       IN IF key \notin seen
            THEN dedupeLastWins(Tail(candidates), seen \cup {key}, Append(uniqueCandidates, c))
            ELSE dedupeLastWins(Tail(candidates), seen,
                                [i \in 1..Len(uniqueCandidates) |->
                                   IF <<uniqueCandidates[i].price, uniqueCandidates[i].source>> = key
                                     THEN c ELSE uniqueCandidates[i]])

RECURSIVE dedupe(_, _, _)
dedupe(candidates, seen, uniqueCandidates) ==
  IF candidates = <<>> THEN uniqueCandidates
  ELSE LET c == Head(candidates)
           key == <<c.price, c.source>>
       IN IF key \notin seen
            THEN dedupe(Tail(candidates), seen \cup {key}, Append(uniqueCandidates, c))
            ELSE dedupe(Tail(candidates), seen, uniqueCandidates)

CloseThreshold == 100

\* an in-window sort by price alone
compareWithinRangeByPriceOnly(a, b) == a.price - b.price

\* comparator of the in-window sort: negative when a goes first
compareWithinRange(a, b) ==
  IF Abs(a.price - b.price) < CloseThreshold /\ a.isAmazon /\ ~b.isAmazon THEN -1
  ELSE IF Abs(a.price - b.price) < CloseThreshold /\ ~a.isAmazon /\ b.isAmazon THEN 1
  ELSE a.price - b.price

compareByPrice(a, b) == a.price - b.price

\* src/models/InsuranceItemPricer.js: (a, b) => a.priceScore - b.priceScore
compareByScore(a, b) == a.priceScore - b.priceScore

\* src/models/OptimizedInsuranceItemPricer.js: higher priority first, then lower price
\* (a NaN priority makes the comparator return NaN, which the sort takes as 0)
compareByPriority(a, b) ==
  IF a.nan \/ b.nan THEN 0
  ELSE IF a.priority # b.priority THEN b.priority - a.priority ELSE a.price - b.price

compare(mode, a, b) ==
  IF mode = "withinRange" THEN compareWithinRange(a, b)
  ELSE IF mode = "score" THEN compareByScore(a, b)
  ELSE IF mode = "priority" THEN compareByPriority(a, b)
  ELSE compareByPrice(a, b)

\* Array.prototype.sort is stable: x goes before the first element it precedes
RECURSIVE insertSorted(_, _, _)
insertSorted(mode, x, sorted) ==
  IF sorted = <<>> THEN <<x>>
  ELSE IF compare(mode, x, Head(sorted)) < 0 THEN <<x>> \o sorted
  ELSE <<Head(sorted)>> \o insertSorted(mode, x, Tail(sorted))

RECURSIVE sort(_, _)
sort(mode, arr) ==
  IF arr = <<>> THEN <<>>
  ELSE insertSorted(mode, arr[Len(arr)], sort(mode, SubSeq(arr, 1, Len(arr) - 1)))

NoMatch == [price |-> 0, source |-> NoDomain, url |-> <<>>, description |-> <<>>,
            priceScore |-> 0, isInRange |-> FALSE, isAmazon |-> FALSE, sourceField |-> <<>>,
            strategy |-> ""]

inWindow(c, min, max) == c.price * 100 >= min /\ c.price * 100 <= max

\* a widening of 10% instead of 20%
inCloseTenPercent(c, targetPrice) == c.price * 10 >= targetPrice.v * 9 /\ c.price * 10 <= targetPrice.v * 11

\* within 20% of the target: target - target*0.2 <= price <= target + target*0.2
inClose(c, targetPrice) == c.price * 10 >= targetPrice.v * 8 /\ c.price * 10 <= targetPrice.v * 12

\* the selector falling through to the tiers when both windows are empty
selectBestMatchNoHardFilter(candidates, targetPrice, min, max) ==
  LET uniqueCandidates == dedupe(candidates, {}, <<>>)
  IN IF uniqueCandidates = <<>> THEN NoMatch
     ELSE IF Truthy(targetPrice)
       THEN LET withinRangeMatches == SelectSeq(uniqueCandidates, LAMBDA c : inWindow(c, min, max))
                closeMatches == SelectSeq(uniqueCandidates, LAMBDA c : inClose(c, targetPrice))
            IN IF withinRangeMatches # <<>> THEN sort("withinRange", withinRangeMatches)[1]
               ELSE IF closeMatches # <<>> THEN sort("price", closeMatches)[1]
               ELSE LET perfectMatches == SelectSeq(uniqueCandidates, LAMBDA c : c.isInRange /\ c.isAmazon)
                        inRangeMatches == SelectSeq(uniqueCandidates, LAMBDA c : c.isInRange)
                        amazonMatches == SelectSeq(uniqueCandidates, LAMBDA c : c.isAmazon)
                        selectedTier == IF perfectMatches # <<>> THEN perfectMatches
                                        ELSE IF inRangeMatches # <<>> THEN inRangeMatches
                                        ELSE IF amazonMatches # <<>> THEN amazonMatches
                                        ELSE uniqueCandidates
                    IN sort("price", selectedTier)[1]
       ELSE LET perfectMatches == SelectSeq(uniqueCandidates, LAMBDA c : c.isInRange /\ c.isAmazon)
                inRangeMatches == SelectSeq(uniqueCandidates, LAMBDA c : c.isInRange)
                amazonMatches == SelectSeq(uniqueCandidates, LAMBDA c : c.isAmazon)
                selectedTier == IF perfectMatches # <<>> THEN perfectMatches
                                ELSE IF inRangeMatches # <<>> THEN inRangeMatches
                                ELSE IF amazonMatches # <<>> THEN amazonMatches
                                ELSE uniqueCandidates
            IN sort("price", selectedTier)[1]

\* the selector without the Amazon tiers when no target is set
selectBestMatchNoAmazonTiers(candidates, targetPrice, min, max) ==
  LET uniqueCandidates == dedupe(candidates, {}, <<>>)
  IN IF uniqueCandidates = <<>> THEN NoMatch
     ELSE IF Truthy(targetPrice)
       THEN LET withinRangeMatches == SelectSeq(uniqueCandidates, LAMBDA c : inWindow(c, min, max))
                closeMatches == SelectSeq(uniqueCandidates, LAMBDA c : inClose(c, targetPrice))
            IN IF withinRangeMatches # <<>> THEN sort("withinRange", withinRangeMatches)[1]
               ELSE IF closeMatches # <<>> THEN sort("price", closeMatches)[1]
               ELSE NoMatch
       ELSE LET inRangeMatches == SelectSeq(uniqueCandidates, LAMBDA c : c.isInRange)
                selectedTier == IF inRangeMatches # <<>> THEN inRangeMatches ELSE uniqueCandidates
            IN sort("price", selectedTier)[1]

selectBestMatchSmartFast(candidates, targetPrice, min, max) ==
  LET uniqueCandidates == dedupe(candidates, {}, <<>>)
  IN IF uniqueCandidates = <<>> THEN NoMatch
     ELSE IF Truthy(targetPrice)
       THEN LET withinRangeMatches == SelectSeq(uniqueCandidates, LAMBDA c : inWindow(c, min, max))
                closeMatches == SelectSeq(uniqueCandidates, LAMBDA c : inClose(c, targetPrice))
            IN IF withinRangeMatches # <<>> THEN sort("withinRange", withinRangeMatches)[1]
               ELSE IF closeMatches # <<>> THEN sort("price", closeMatches)[1]
               ELSE NoMatch
       ELSE LET perfectMatches == SelectSeq(uniqueCandidates, LAMBDA c : c.isInRange /\ c.isAmazon)
                inRangeMatches == SelectSeq(uniqueCandidates, LAMBDA c : c.isInRange)
                amazonMatches == SelectSeq(uniqueCandidates, LAMBDA c : c.isAmazon)
                selectedTier == IF perfectMatches # <<>> THEN perfectMatches
                                ELSE IF inRangeMatches # <<>> THEN inRangeMatches
                                ELSE IF amazonMatches # <<>> THEN amazonMatches
                                ELSE uniqueCandidates
            IN sort("price", selectedTier)[1]

\* src/models/InsuranceItemPricer.js calculatePriceScore: distance to the target,
\* to 50 without a target, 999999 outside the tolerance
calculatePriceScoreStrict(price, targetPrice, tolerance) ==
  IF ~Truthy(targetPrice) THEN Abs(price - 5000)
  ELSE IF price * 100 >= targetPrice.v * 100 - targetPrice.v * tolerance
          /\ price * 100 <= targetPrice.v * 100 + targetPrice.v * tolerance
    THEN Abs(price - targetPrice.v)
    ELSE PenaltyScore

\* src/models/InsuranceItemPricer.js selectBestMatch: with a target only the
\* window counts, Amazon first, then the closest price
selectBestMatch(candidates, targetPrice, min, max) ==
  LET uniqueCandidates == dedupe(candidates, {}, <<>>)
  IN IF uniqueCandidates = <<>> THEN NoMatch
     ELSE IF Truthy(targetPrice)
       THEN LET withinRangeMatches == SelectSeq(uniqueCandidates, LAMBDA c : inWindow(c, min, max))
                amazonWithinRange == SelectSeq(withinRangeMatches, LAMBDA c : c.isAmazon)
                selectedTier == IF amazonWithinRange # <<>> THEN amazonWithinRange ELSE withinRangeMatches
            IN IF withinRangeMatches # <<>> THEN sort("score", selectedTier)[1] ELSE NoMatch
       ELSE LET perfectMatches == SelectSeq(uniqueCandidates, LAMBDA c : c.isInRange /\ c.isAmazon)
                inRangeMatches == SelectSeq(uniqueCandidates, LAMBDA c : c.isInRange)
                amazonMatches == SelectSeq(uniqueCandidates, LAMBDA c : c.isAmazon)
                selectedTier == IF perfectMatches # <<>> THEN perfectMatches
                                ELSE IF inRangeMatches # <<>> THEN inRangeMatches
                                ELSE IF amazonMatches # <<>> THEN amazonMatches
                                ELSE uniqueCandidates
            IN sort("score", selectedTier)[1]

---------------------------------------------------------------------------
(* src/models/OptimizedInsuranceItemPricer.js: one search, one selection    *)

\* the priority multiplied by 1000, so that price / 10 is a whole number for a
\* price in cents
calculatePriority(price, withinRange, isAmazon, hasTargetPrice) ==
  (IF withinRange \/ ~hasTargetPrice THEN 100000 ELSE 0)
    + (IF isAmazon THEN 50000 ELSE 0)
    + Max2(0, 50000 - price)

getDirectUrlOptimized(r) ==
  IF r.link.text # <<>> /\ includes(r.link.text, s_amazon_slash) /\ includes(r.link.text, s_dp)
    THEN r.link.text
  ELSE IF r.link.text # <<>> /\ includes(r.link.text, s_aclk) /\ r.link.parses
          /\ r.link.adurl # <<>> /\ ~decodeThrows(r.link.adurl)
    THEN r.link.adurl
  ELSE IF r.product_link # <<>> THEN r.product_link
  ELSE IF r.link.text # <<>> THEN r.link.text
  ELSE s_manual

\* the for-loop of selectBestCandidateOptimized over the hits left, for hits whose
\* extracted_price is a number
\* lines 117-127: the candidate pushed for the result r
\* (a price that parses to NaN passes the test price <= 0; it makes the priority NaN)
candidateOptimized(r, price, trustedDomain, withinRange, hasTargetPrice) ==
  [price |-> price.v, nan |-> price.nan, source |-> trustedDomain, url |-> getDirectUrlOptimized(r),
   description |-> r.title, withinRange |-> withinRange, isAmazon |-> trustedDomain = "amazon.com",
   priority |-> calculatePriority(price.v, withinRange, trustedDomain = "amazon.com", hasTargetPrice)]

RECURSIVE collectOptimized(_, _, _, _, _, _)

\* lines 129-135: after the push, leave the loop or go on
collectPushed(results, pushed, foundPerfectMatch, minPrice, maxPrice, hasTargetPrice) ==
  IF pushed[Len(pushed)].isAmazon /\ pushed[Len(pushed)].withinRange /\ ~foundPerfectMatch /\ Len(pushed) >= 8
    THEN pushed
  ELSE IF Len(pushed) >= 15 THEN pushed
  ELSE collectOptimized(Tail(results), pushed,
                        foundPerfectMatch \/ (pushed[Len(pushed)].isAmazon /\ pushed[Len(pushed)].withinRange),
                        minPrice, maxPrice, hasTargetPrice)

\* lines 108-127: price and domain of the result decide whether it becomes a candidate
collectResult(results, candidates, foundPerfectMatch, minPrice, maxPrice, hasTargetPrice, price, trustedDomain) ==
  IF (~price.nan /\ price.v <= 0) \/ trustedDomain = NoDomain
    THEN collectOptimized(Tail(results), candidates, foundPerfectMatch, minPrice, maxPrice, hasTargetPrice)
    ELSE collectPushed(results,
                       Append(candidates,
                              candidateOptimized(Head(results), price, trustedDomain,
                                                 ~hasTargetPrice \/ (/\ ~price.nan /\ price.v * 100 >= minPrice
                                                                      /\ price.v * 100 <= maxPrice),
                                                 hasTargetPrice)),
                       foundPerfectMatch, minPrice, maxPrice, hasTargetPrice)

\* lines 106-136: the loop over the results
collectOptimized(results, candidates, foundPerfectMatch, minPrice, maxPrice, hasTargetPrice) ==
  IF results = <<>> THEN candidates
  ELSE collectResult(results, candidates, foundPerfectMatch, minPrice, maxPrice, hasTargetPrice,
                     parsePrice(Head(results).extracted_price), getTrustedSourceFast(Head(results).source))

NoCandidate ==
  [price |-> 0, nan |-> FALSE, source |-> NoDomain, url |-> <<>>, description |-> <<>>,
   withinRange |-> FALSE, isAmazon |-> FALSE, priority |-> 0]

selectBestCandidateOptimized(results, minPrice, maxPrice, hasTargetPrice) ==
  LET candidates == collectOptimized(results, <<>>, FALSE, minPrice, maxPrice, hasTargetPrice)
  IN IF candidates = <<>> THEN NoCandidate ELSE sort("priority", candidates)[1]

\* findBestPrice and performOptimizedSearch: found, price, source, url and description
\* of the answer
findBestPriceOptimized(resp, targetPrice, tolerance) ==
  LET hasTargetPrice == Truthy(targetPrice) /\ targetPrice.v > 0
      minPrice == IF hasTargetPrice THEN minPriceOf(targetPrice, tolerance) ELSE 0
      maxPrice == IF hasTargetPrice THEN maxPriceOf(targetPrice, tolerance) ELSE NoMax
      results == SubSeq(resp.hits, 1, Min2(MaxResults, Len(resp.hits)))
      result == IF resp.kind \in {"timeout", "error", "malformed", "noresults"} \/ results = <<>>
                  THEN NoCandidate
                  ELSE selectBestCandidateOptimized(results, minPrice, maxPrice, hasTargetPrice)
  IN [found |-> result # NoCandidate, price |-> result.price, source |-> result.source,
      url |-> result.url, description |-> result.description]

---------------------------------------------------------------------------
(* QueryCache: a Map in insertion order, as a sequence of entries          *)

CacheLimit == 100

\* line 46: `${query.toLowerCase().substring(0, 50)}_${targetPrice}_${tolerance}`
KeyPrefixLen == 50

\* the key without lower-casing the query
cacheKeyOfCaseSensitive(query, targetPrice, tolerance) ==
  substring0(query, KeyPrefixLen) \o <<"_">> \o TargetStr(targetPrice) \o <<"_">> \o IntStr(tolerance)

cacheKeyOf(query, targetPrice, tolerance) ==
  substring0(toLowerCase(query), KeyPrefixLen) \o <<"_">> \o TargetStr(targetPrice) \o <<"_">> \o IntStr(tolerance)

cacheHas(cache, key) == \E i \in 1..Len(cache) : cache[i].key = key

cacheGet(cache, key) == cache[CHOOSE i \in 1..Len(cache) : cache[i].key = key].value

\* Map.prototype.set: a present key keeps its position, a new key goes last
cacheSet(cache, key, value) ==
  IF cacheHas(cache, key)
    THEN [i \in 1..Len(cache) |-> IF cache[i].key = key THEN [key |-> key, value |-> value] ELSE cache[i]]
    ELSE Append(cache, [key |-> key, value |-> value])

\* set without eviction
cachePutUnbounded(cache, key, response) == cacheSet(cache, key, response)

\* set, then delete the last key when the size exceeds 100
cachePutDropsNewest(cache, key, response) ==
  LET stored == cacheSet(cache, key, response)
  IN IF Len(stored) > CacheLimit THEN SubSeq(stored, 1, Len(stored) - 1) ELSE stored

\* lines 95-101: set, then delete the first key when the size exceeds 100
cachePut(cache, key, response) ==
  LET stored == cacheSet(cache, key, response)
  IN IF Len(stored) > CacheLimit THEN Tail(stored) ELSE stored

---------------------------------------------------------------------------
(* ResolutionResult                                                        *)

NoMessage == [text |-> "", tolerance |-> 0, targetPrice |-> NullTarget, min |-> 0, max |-> 0]

foundResponse(result) ==
  [found |-> TRUE, price |-> result.price, source |-> result.source, url |-> result.url,
   category |-> "HSW", subcategory |-> getSubCategory(result.description),
   description |-> result.description, message |-> NoMessage, error |-> ""]

notFoundResponse(targetPrice, tolerance, min, max) ==
  [found |-> FALSE, price |-> 0, source |-> NoDomain, url |-> <<>>, category |-> "", subcategory |-> "",
   description |-> <<>>,
   message |-> IF Truthy(targetPrice)
                 THEN [text |-> "No suitable matches found within", tolerance |-> tolerance,
                       targetPrice |-> targetPrice, min |-> min, max |-> max]
                 ELSE [text |-> "No suitable matches found", tolerance |-> 0,
                       targetPrice |-> NullTarget, min |-> 0, max |-> 0],
   error |-> ""]

\* the catch block of findBestPrice
errorResponse(msg) ==
  [found |-> FALSE, price |-> 0, source |-> NoDomain, url |-> <<>>, category |-> "", subcategory |-> "",
   description |-> <<>>, message |-> NoMessage, error |-> msg]

NoResponse == errorResponse("none")

\* lines 72-92
buildResponse(result, targetPrice, tolerance, min, max) ==
  IF result # NoMatch THEN foundResponse(result) ELSE notFoundResponse(targetPrice, tolerance, min, max)

---------------------------------------------------------------------------
(* SearchOrchestrator: the pieces of trySerpAPISmartFast between awaits    *)

\* the flexible price filtering applies only to a window strictly inside (0, 99999)
priceFiltering(targetPrice, min, max) == Truthy(targetPrice) /\ min > 0 /\ max < NoMax

\* round 1 that stops without a target only on an in-range Amazon candidate
round1MatchPerfectOnly(candidates, targetPrice, min, max) ==
  IF priceFiltering(targetPrice, min, max)
    THEN LET withinRangeCandidates == SelectSeq(candidates, LAMBDA c : inWindow(c, min, max))
             closeToRangeCandidates == SelectSeq(candidates, LAMBDA c : inClose(c, targetPrice))
             exact == IF withinRangeCandidates # <<>>
                        THEN selectBestMatchSmartFast(withinRangeCandidates, targetPrice, min, max)
                        ELSE NoMatch
         IN IF exact # NoMatch THEN exact
            ELSE IF closeToRangeCandidates # <<>>
              THEN selectBestMatchSmartFast(closeToRangeCandidates, targetPrice, min, max)
              ELSE NoMatch
    ELSE IF candidates # <<>> /\ (\E i \in 1..Len(candidates) : candidates[i].isInRange /\ candidates[i].isAmazon)
      THEN selectBestMatchSmartFast(candidates, targetPrice, min, max)
      ELSE NoMatch

\* lines 214-272: the winner of round 1, or NoMatch to go on
round1Match(candidates, targetPrice, min, max) ==
  IF priceFiltering(targetPrice, min, max)
    THEN LET withinRangeCandidates == SelectSeq(candidates, LAMBDA c : inWindow(c, min, max))
             closeToRangeCandidates == SelectSeq(candidates, LAMBDA c : inClose(c, targetPrice))
             exact == IF withinRangeCandidates # <<>>
                        THEN selectBestMatchSmartFast(withinRangeCandidates, targetPrice, min, max)
                        ELSE NoMatch
         IN IF exact # NoMatch THEN exact
            ELSE IF closeToRangeCandidates # <<>>
              THEN selectBestMatchSmartFast(closeToRangeCandidates, targetPrice, min, max)
              ELSE NoMatch
    ELSE IF candidates # <<>> /\ (\E i \in 1..Len(candidates) : candidates[i].isInRange)
      THEN selectBestMatchSmartFast(candidates, targetPrice, min, max)
      ELSE NoMatch

\* replace(/\b(new|mail box|postal box|heavy duty|security)\b/gi, '')
fillerAt(s, i) ==
  { k \in 1..Len(fillerTerms) :
      /\ i + Len(fillerTerms[k]) - 1 <= Len(s)
      /\ toLowerCase(SubSeq(s, i, i + Len(fillerTerms[k]) - 1)) = fillerTerms[k]
      /\ (i = 1 \/ ~IsWordChar(s[i - 1]))
      /\ (i + Len(fillerTerms[k]) > Len(s) \/ ~IsWordChar(s[i + Len(fillerTerms[k])])) }

RECURSIVE stripFillers(_, _)
stripFillers(s, i) ==
  IF i > Len(s) THEN <<>>
  ELSE IF fillerAt(s, i) # {}
    THEN stripFillers(s, i + Len(fillerTerms[CHOOSE k \in fillerAt(s, i) : \A j \in fillerAt(s, i) : k <= j]))
    ELSE <<s[i]>> \o stripFillers(s, i + 1)

\* split(' ').slice(0, k).join(' '): the text before the k-th space
firstWords(s, k) ==
  LET spaces == { i \in 1..Len(s) : s[i] = " " }
  IN IF Cardinality(spaces) < k THEN s
     ELSE SubSeq(s, 1, (CHOOSE i \in spaces : Cardinality({ j \in spaces : j <= i }) = k) - 1)

\* a list with a fourth fallback, the first two words
alternativeQueriesWithFourth(sanitized) ==
  << trim(stripFillers(sanitized, 1)), firstWords(sanitized, 5), firstWords(sanitized, 3),
     firstWords(sanitized, 2) >>

\* lines 277-281
alternativeQueriesOf(sanitized) ==
  << trim(stripFillers(sanitized, 1)), firstWords(sanitized, 5), firstWords(sanitized, 3) >>

MinAltLength == 5

\* line 284: the next alternative query that is not skipped, 0 when none is left
nextAlternative(alts, sanitized, after) ==
  LET eligible == { i \in (after + 1)..Len(alts) : ~(Len(alts[i]) < MinAltLength \/ alts[i] = sanitized) }
  IN IF eligible = {} THEN 0 ELSE CHOOSE i \in eligible : \A j \in eligible : i <= j

\* lines 291-312: the winner of a fallback round, or NoMatch
alternativeMatch(altCandidates, targetPrice, min, max) ==
  IF priceFiltering(targetPrice, min, max)
    THEN LET withinRange == SelectSeq(altCandidates, LAMBDA c : inWindow(c, min, max))
             closeToRange == SelectSeq(altCandidates, LAMBDA c : inClose(c, targetPrice))
             candidatesToUse == IF withinRange # <<>> THEN withinRange ELSE closeToRange
         IN IF candidatesToUse # <<>>
              THEN selectBestMatchSmartFast(candidatesToUse, targetPrice, min, max)
              ELSE NoMatch
    ELSE NoMatch

\* a loop that never adds the candidates of a fallback round to the pool
pooledNever(candidates, altCandidates, targetPrice, min, max) == candidates

\* line 314: candidates.push(...altCandidates.map(c => ({...c, strategy: 'Alternative'})))
pooled(candidates, altCandidates, targetPrice, min, max) ==
  IF priceFiltering(targetPrice, min, max) THEN candidates
  ELSE candidates \o [i \in 1..Len(altCandidates) |-> [altCandidates[i] EXCEPT !.strategy = "Alternative"]]

\* lines 320-333: leave the loop of alternative searches
stopSearching(altCandidates, targetPrice, min, max) ==
  IF Truthy(targetPrice) /\ altCandidates # <<>>
    THEN \E i \in 1..Len(altCandidates) : inWindow(altCandidates[i], min, max)
    ELSE \E i \in 1..Len(altCandidates) : altCandidates[i].isAmazon /\ altCandidates[i].isInRange

\* lines 336-355
finalMatch(candidates, targetPrice, min, max) ==
  IF candidates = <<>> THEN NoMatch ELSE selectBestMatchSmartFast(candidates, targetPrice, min, max)

---------------------------------------------------------------------------
(* Inputs: queries, target settings, search hits and provider answers      *)

\* texts of the query argument
queryText ==
  [
    quotes |-> <<"'"," ","'">>,
    lamps |-> <<"N","e","w"," ","L","a","m","p","s">>,
    lamps_lc |-> <<"n","e","w"," ","l","a","m","p","s">>,
    four |-> <<"n","e","w"," ","a","b"," ","c","d"," ","e","f"," ","g","h"," ","i","j">>,
    tail |-> <<"a","b"," ","c","d"," ","e","f"," ","g","h"," ","i","j"," ","n","e","w">>,
    long1 |-> <<"a","a","a","a","a","a","a","a","a"," ","a","a","a","a","a","a","a","a","a"," ","a","a","a","a","a","a","a","a","a"," ","a","a","a","a","a","a","a","a","a"," ","a","a","a","a","a","a","a","a","a"," ","b">>,
    long2 |-> <<"a","a","a","a","a","a","a","a","a"," ","a","a","a","a","a","a","a","a","a"," ","a","a","a","a","a","a","a","a","a"," ","a","a","a","a","a","a","a","a","a"," ","a","a","a","a","a","a","a","a","a"," ","c">>
  ]

\* texts of a hit's source field
sourceText ==
  [
    amazon |-> <<"A","m","a","z","o","n",".","c","o","m">>,
    walmart |-> <<"W","a","l","m","a","r","t"," ","-"," ","R","R","X">>,
    target |-> <<"T","a","r","g","e","t">>,
    bestbuy |-> <<"B","e","s","t"," ","B","u","y"," ","M","a","r","k","e","t","p","l","a","c","e">>,
    unknown |-> <<"R","a","n","d","o","m","S","t","o","r","e"," ","I","n","c",".">>,
    costco |-> <<"C","o","s","t","c","o">>
  ]

\* texts of a hit's link and product_link fields
linkText ==
  [
    amazon_dp |-> <<"h","t","t","p","s",":","/","/","w","w","w",".","a","m","a","z","o","n",".","c","o","m","/","x","/","d","p","/","B","0","1">>,
    aclk |-> <<"h","t","t","p","s",":","/","/","w","w","w",".","g","o","o","g","l","e",".","c","o","m","/","a","c","l","k","?","a","d","u","r","l","=","h","t","t","p","s","%","3","A","%","2","F","%","2","F","w","w","w",".","a","m","a","z","o","n",".","c","o","m","%","2","F","g","p","%","2","F","B","0","2">>,
    adurl |-> <<"h","t","t","p","s",":","/","/","w","w","w",".","a","m","a","z","o","n",".","c","o","m","/","g","p","/","B","0","2">>,
    product |-> <<"h","t","t","p","s",":","/","/","s","h","o","p",".","e","x","a","m","p","l","e","/","p","1">>,
    plain |-> <<"h","t","t","p","s",":","/","/","s","h","o","p",".","e","x","a","m","p","l","e","/","l","2">>,
    amazon_dp2 |-> <<"h","t","t","p","s",":","/","/","w","w","w",".","a","m","a","z","o","n",".","c","o","m","/","y","/","d","p","/","B","0","9">>
  ]

\* texts of a hit's title field
titleText ==
  [
    brush |-> <<"T","o","i","l","e","t"," ","B","r","u","s","h">>,
    lamp |-> <<"L","a","m","p">>,
    brush_set |-> <<"T","o","i","l","e","t"," ","B","r","u","s","h"," ","S","e","t">>
  ]

\* texts of a hit's extracted_price field
priceText ==
  [
    hundred |-> <<"1","0","0",".","0","0">>,
    abc |-> <<"a","b","c">>
  ]

\* a query argument: a string, or a value that is not a string
StringQuery(s) == [str |-> TRUE, s |-> s]

NonStringQuery == [str |-> FALSE, s |-> <<>>]

\* queries of the resolution runs: no search terms left, one fallback, three fallbacks,
\* a filler word after five words
Queries ==
  { StringQuery(queryText.quotes), StringQuery(queryText.lamps), StringQuery(queryText.four),
    StringQuery(queryText.tail), NonStringQuery }

\* queries of the cache runs: two spellings of one key, two texts that agree on 50 characters
CacheQueries == { StringQuery(queryText.lamps), StringQuery(queryText.lamps_lc), StringQuery(queryText.long1), StringQuery(queryText.long2) }

\* (targetPrice, tolerance) pairs: no target, $100 +/-10%, $100 +/-100%
Settings == { <<NullTarget, 10>>, <<Target(10000), 10>>, <<Target(10000), 100>> }

Hit(price, source, link, product_link, title) ==
  [extracted_price |-> price, source |-> source, link |-> link, product_link |-> product_link, title |-> title]

\* shopping results
hit ==
  [
    amz100 |-> Hit(PriceNum(10000), sourceText.amazon, Link(linkText.amazon_dp, TRUE, <<>>), <<>>, titleText.brush),
    wal100 |-> Hit(PriceStr(priceText.hundred), sourceText.walmart, NoLink, linkText.product, titleText.lamp),
    tgt100 |-> Hit(PriceNum(10000), sourceText.target, Link(linkText.plain, TRUE, <<>>), <<>>, titleText.lamp),
    tgt115 |-> Hit(PriceNum(11500), sourceText.target, Link(linkText.plain, TRUE, <<>>), <<>>, titleText.lamp),
    amz130 |-> Hit(PriceNum(13000), sourceText.amazon, Link(linkText.aclk, TRUE, linkText.adurl), linkText.product, titleText.lamp),
    unknown |-> Hit(PriceNum(10000), sourceText.unknown, Link(linkText.plain, TRUE, <<>>), <<>>, titleText.lamp),
    noprice |-> Hit(PriceAbsent, sourceText.amazon, Link(linkText.amazon_dp, TRUE, <<>>), <<>>, titleText.brush),
    nan |-> Hit(PriceStr(priceText.abc), sourceText.walmart, NoLink, <<>>, titleText.lamp),
    neg |-> Hit(PriceNum(-500), sourceText.costco, NoLink, <<>>, <<>>),
    zero |-> Hit(PriceNum(0), sourceText.bestbuy, NoLink, <<>>, titleText.lamp),
    nosource |-> Hit(PriceNum(10000), <<>>, NoLink, <<>>, titleText.lamp),
    amz_huge |-> Hit(PriceNum(15000000), sourceText.amazon, NoLink, <<>>, titleText.lamp),
    bby_huge |-> Hit(PriceNum(12000000), sourceText.bestbuy, NoLink, <<>>, titleText.lamp),
    amz100_again |-> Hit(PriceNum(10000), sourceText.amazon, Link(linkText.amazon_dp2, TRUE, <<>>), <<>>, titleText.brush_set),
    amz10050 |-> Hit(PriceNum(10050), sourceText.amazon, Link(linkText.amazon_dp, TRUE, <<>>), <<>>, titleText.lamp),
    wal9980 |-> Hit(PriceNum(9980), sourceText.walmart, NoLink, linkText.product, titleText.lamp),
    amz10090 |-> Hit(PriceNum(10090), sourceText.amazon, Link(linkText.amazon_dp2, TRUE, <<>>), <<>>, titleText.lamp),
    amz11550 |-> Hit(PriceNum(11550), sourceText.amazon, Link(linkText.amazon_dp, TRUE, <<>>), <<>>, titleText.lamp)
  ]

\* provider answers
answer ==
  [
    timeout |-> Response("timeout", <<>>),
    error |-> Response("error", <<>>),
    malformed |-> Response("malformed", <<>>),
    noresults |-> Response("noresults", <<>>),
    empty |-> Response("ok", <<>>),
    mixed |-> Response("ok", <<hit.unknown, hit.noprice, hit.wal100, hit.tgt100>>),
    close |-> Response("ok", <<hit.nan, hit.nosource, hit.tgt115, hit.amz130>>),
    far |-> Response("ok", <<hit.zero, hit.amz130, hit.neg>>),
    huge |-> Response("ok", <<hit.bby_huge, hit.amz_huge>>)
  ]

Responses == { answer.timeout, answer.error, answer.malformed, answer.noresults, answer.empty, answer.mixed, answer.close, answer.far, answer.huge }

FailedKinds == {"timeout", "error", "malformed"}

---------------------------------------------------------------------------
(* State                                                                   *)

VARIABLES
  queryCache,   \* this.queryCache, entries in insertion order
  cacheHits,    \* this.cacheHits
  calls,        \* the findBestPrice invocations, one per slot
  ncalls,       \* number of findBestPrice invocations so far
  returned,     \* history: the last normal return of each request key, until its entry is evicted
  inserted,     \* history: the keys in the order they were inserted as new entries
  lastHit,      \* history: key of the most recent cache hit
  lastEvicted,  \* history: key most recently deleted from the cache
  sel,          \* a selector run on its own: the input list, a variant of it, both winners
  pure,         \* one application of the resolver, the sanitizer or the range filter
  batch         \* a route handler: the request, its position, the rows written, the calls in flight

vars == <<queryCache, cacheHits, calls, ncalls, returned, inserted, lastHit, lastEvicted, sel, pure, batch>>

MaxCalls == 2

MaxCacheCalls == 3

MaxInFlight == 2

Slots == 1..MaxInFlight

NoKey == <<>>

IdleCall ==
  [pc |-> "idle", query |-> NonStringQuery, targetPrice |-> NullTarget, tolerance |-> 0,
   altIndex |-> 0, candidates |-> <<>>, altCandidates |-> <<>>, result |-> NoResponse,
   providerCalls |-> 0, failedCalls |-> 0, sent |-> <<>>, delays |-> 0,
   cacheHit |-> FALSE, prior |-> NoResponse, normal |-> FALSE,
   seen |-> <<>>, final |-> FALSE, overlapped |-> FALSE, answered |-> 0,
   sanitized |-> <<>>, alternativeQueries |-> <<>>]

minOf(c) == minPriceOf(c.targetPrice, c.tolerance)

maxOf(c) == maxPriceOf(c.targetPrice, c.tolerance)

keyOf(c) == cacheKeyOf(c.query.s, c.targetPrice, c.tolerance)

sanitizedOf(c) == sanitizeQuery(c.query.s)

cacheKeys(cache) == { cache[i].key : i \in 1..Len(cache) }

\* two requests share a cache entry: equal lower-cased 50-character prefix, target and tolerance
sameRequest(e, query, targetPrice, tolerance) ==
  /\ [i \in 1..Min2(50, Len(e.query)) |-> ToLowerChar(e.query[i])]
       = [i \in 1..Min2(50, Len(query)) |-> ToLowerChar(query[i])]
  /\ e.targetPrice = targetPrice
  /\ e.tolerance = tolerance

priorOf(query, targetPrice, tolerance) ==
  LET earlier == { e \in returned : sameRequest(e, query, targetPrice, tolerance) }
  IN IF earlier = {} THEN NoResponse ELSE (CHOOSE e \in earlier : TRUE).value

IdleSel ==
  [stage |-> "idle", candidates |-> <<>>, targetPrice |-> NullTarget, tolerance |-> 0,
   variant |-> <<>>, relation |-> "none", best |-> NoMatch, bestVariant |-> NoMatch,
   strict |-> NoMatch, strictVariant |-> NoMatch]

IdlePure ==
  [stage |-> "idle", fn |-> "none", text |-> <<>>, price |-> 0, targetPrice |-> NullTarget, tolerance |-> 0,
   domain |-> NoDomain, optimizedDomain |-> NoDomain, once |-> <<>>, twice |-> <<>>,
   isInRange |-> FALSE, min |-> 0, max |-> 0, hits |-> <<>>,
   result |-> [found |-> FALSE, price |-> 0, source |-> NoDomain, url |-> <<>>, description |-> <<>>]]

NoReply == [status |-> 0, totalItems |-> 0, totalRowsProcessed |-> 0, results |-> <<>>]

IdleBatch ==
  [pc |-> "idle", serpApiKey |-> TRUE, pricer |-> TRUE, route |-> "none", rows |-> <<>>, index |-> 0,
   inFlight |-> {}, results |-> <<>>, processedRows |-> <<>>, totalItems |-> 0, successfulFinds |-> 0,
   errorCount |-> 0, started |-> 0, delayed |-> FALSE, backToBack |-> FALSE, response |-> NoReply]

Request(query, targetPrice, tolerance) == [query |-> query, targetPrice |-> targetPrice, tolerance |-> tolerance]

\* the entry a resolution that found nothing leaves in the cache
notFoundEntry(rq) ==
  [key |-> cacheKeyOf(rq.query, rq.targetPrice, rq.tolerance),
   value |-> notFoundResponse(rq.targetPrice, rq.tolerance, minPriceOf(rq.targetPrice, rq.tolerance),
                              maxPriceOf(rq.targetPrice, rq.tolerance))]

\* the pricer after the resolutions `earlier`, none of which found anything
InitWith(earlier) ==
  /\ queryCache = [i \in 1..Len(earlier) |-> notFoundEntry(earlier[i])]
  /\ cacheHits = 0
  /\ calls = [s \in Slots |-> IdleCall]
  /\ ncalls = 0
  /\ returned = { [query |-> earlier[i].query, targetPrice |-> earlier[i].targetPrice,
                    tolerance |-> earlier[i].tolerance, key |-> notFoundEntry(earlier[i]).key,
                    value |-> notFoundEntry(earlier[i]).value, failed |-> FALSE] : i \in 1..Len(earlier) }
  /\ inserted = [i \in 1..Len(earlier) |-> notFoundEntry(earlier[i]).key]
  /\ lastHit = NoKey
  /\ lastEvicted = NoKey
  /\ sel = IdleSel
  /\ pure = IdlePure
  /\ batch = IdleBatch

\* the state after construction
Init == InitWith(<<>>)

---------------------------------------------------------------------------
(* findBestPrice                                                           *)

\* a batch route awaits each findBestPrice before the next one
NoneInFlight == \A t \in Slots : calls[t].pc \in {"idle", "done"}

NewCall(query, targetPrice, tolerance) ==
  [IdleCall EXCEPT !.query = query, !.targetPrice = targetPrice, !.tolerance = tolerance]

\* another findBestPrice on the same instance has started and not yet returned
othersInFlight(s) == \E t \in Slots \ {s} : calls[t].pc \notin {"idle", "done"}

\* line 46 throws on a query that has no toLowerCase; the catch block answers
CallFault(s, query, targetPrice, tolerance, maxCalls) ==
  /\ ncalls < maxCalls
  /\ ~query.str
  /\ calls' = [calls EXCEPT ![s] = [NewCall(query, targetPrice, tolerance) EXCEPT
                 !.pc = "done", !.result = errorResponse("query.toLowerCase is not a function")]]
  /\ ncalls' = ncalls + 1
  /\ UNCHANGED <<queryCache, cacheHits, returned, inserted, lastHit, lastEvicted, sel, pure, batch>>

\* lines 46-54: the key is in the cache
CacheHit(s, query, targetPrice, tolerance, maxCalls) ==
  /\ ncalls < maxCalls
  /\ query.str
  /\ LET key == cacheKeyOf(query.s, targetPrice, tolerance)
     IN /\ cacheHas(queryCache, key)
        /\ cacheHits' = cacheHits + 1
        /\ calls' = [calls EXCEPT ![s] = [NewCall(query, targetPrice, tolerance) EXCEPT
                       !.pc = "done", !.result = cacheGet(queryCache, key), !.cacheHit = TRUE,
                       !.prior = priorOf(query.s, targetPrice, tolerance), !.normal = TRUE,
                       !.overlapped = othersInFlight(s)]]
        /\ lastHit' = key
  /\ ncalls' = ncalls + 1
  /\ UNCHANGED <<queryCache, returned, inserted, lastEvicted, sel, pure, batch>>

\* lines 46-70 and 206-212: a miss computes the window, sanitizes the query and sends
\* round 1; the alternative queries (lines 277-281) depend on the sanitized query only
CacheMiss(s, query, targetPrice, tolerance, maxCalls) ==
  /\ ncalls < maxCalls
  /\ query.str
  /\ LET key == cacheKeyOf(query.s, targetPrice, tolerance)
     IN /\ ~cacheHas(queryCache, key)
        /\ calls' = [calls EXCEPT ![s] = [NewCall(query, targetPrice, tolerance) EXCEPT
                       !.pc = "search", !.altIndex = 0, !.providerCalls = 1, !.sent = <<0>>,
                       !.prior = priorOf(query.s, targetPrice, tolerance),
                       !.overlapped = othersInFlight(s),
                       !.sanitized = sanitizeQuery(query.s),
                       !.alternativeQueries = alternativeQueriesOf(sanitizeQuery(query.s))]]
  /\ ncalls' = ncalls + 1
  /\ UNCHANGED <<queryCache, cacheHits, returned, inserted, lastHit, lastEvicted, sel, pure, batch>>

\* the candidates of the rounds so far: those of round 1 when round 1 has just answered
seenAfterRound1(c) == IF c.altIndex = 0 THEN c.candidates ELSE c.seen

\* every provider call of the resolution timed out or failed
allCallsFailed(c) == c.providerCalls >= 1 /\ c.failedCalls = c.providerCalls

\* a return that leaves the cache alone when every provider call of the resolution failed
FinishSkipsFailures(s, c, match, final) ==
  \E key \in { keyOf(c) } :
  \E response \in { buildResponse(match, c.targetPrice, c.tolerance, minOf(c), maxOf(c)) } :
  \E cache2 \in { IF allCallsFailed(c) THEN queryCache ELSE cachePut(queryCache, key, response) } :
  \E gone \in { cacheKeys(queryCache) \ cacheKeys(cache2) } :
     /\ queryCache' = cache2
     /\ calls' = [calls EXCEPT ![s] = [c EXCEPT !.pc = "done", !.result = response, !.normal = TRUE,
                                               !.candidates = <<>>, !.altCandidates = <<>>,
                                               !.final = final,
                                               !.seen = IF final THEN seenAfterRound1(c) ELSE <<>>]]
     /\ returned' = { e \in returned : e.key \notin gone /\ e.key # key }
                       \cup {[query |-> c.query.s, targetPrice |-> c.targetPrice, tolerance |-> c.tolerance,
                               key |-> key, value |-> response, failed |-> allCallsFailed(c)]}
     /\ inserted' = IF cacheHas(queryCache, key) THEN inserted ELSE Append(inserted, key)
     /\ lastEvicted' = IF gone = {} THEN lastEvicted ELSE CHOOSE k \in gone : TRUE
     /\ UNCHANGED <<cacheHits, ncalls, lastHit, sel, pure, batch>>

\* lines 72-103: build the response, cache it, return it
Finish(s, c, match, final) ==
  \E key \in { keyOf(c) } :
  \E response \in { buildResponse(match, c.targetPrice, c.tolerance, minOf(c), maxOf(c)) } :
  \E cache2 \in { cachePut(queryCache, key, response) } :
  \E gone \in { cacheKeys(queryCache) \ cacheKeys(cache2) } :
     /\ queryCache' = cache2
     /\ calls' = [calls EXCEPT ![s] = [c EXCEPT !.pc = "done", !.result = response, !.normal = TRUE,
                                               !.candidates = <<>>, !.altCandidates = <<>>,
                                               !.final = final,
                                               !.seen = IF final THEN seenAfterRound1(c) ELSE <<>>]]
     /\ returned' = { e \in returned : e.key \notin gone /\ e.key # key }
                       \cup {[query |-> c.query.s, targetPrice |-> c.targetPrice, tolerance |-> c.tolerance,
                               key |-> key, value |-> response, failed |-> allCallsFailed(c)]}
     /\ inserted' = IF cacheHas(queryCache, key) THEN inserted ELSE Append(inserted, key)
     /\ lastEvicted' = IF gone = {} THEN lastEvicted ELSE CHOOSE k \in gone : TRUE
     /\ UNCHANGED <<cacheHits, ncalls, lastHit, sel, pure, batch>>

\* lines 105-111: an exception out of trySerpAPISmartFast is answered, not cached
Fault(s, c, msg) ==
  /\ calls' = [calls EXCEPT ![s] = [c EXCEPT !.pc = "done", !.result = errorResponse(msg),
                                            !.candidates = <<>>, !.altCandidates = <<>>, !.seen = <<>>]]
  /\ UNCHANGED <<queryCache, cacheHits, ncalls, returned, inserted, lastHit, lastEvicted, sel, pure, batch>>

\* send the alternative query n to the provider (line 288)
SendAlternative(s, c, n) ==
  /\ calls' = [calls EXCEPT ![s] = [c EXCEPT !.pc = "search", !.altIndex = n,
                                            !.providerCalls = c.providerCalls + 1,
                                            !.sent = Append(c.sent, n),
                                            !.seen = seenAfterRound1(c)]]
  /\ UNCHANGED <<queryCache, cacheHits, ncalls, returned, inserted, lastHit, lastEvicted, sel, pure, batch>>

\* after the loop (lines 336-355), or the next alternative query
Continue(s, c, after) ==
  \E n \in { nextAlternative(c.alternativeQueries, c.sanitized, after) } :
     IF n = 0
       THEN Finish(s, c, finalMatch(c.candidates, c.targetPrice, minOf(c), maxOf(c)), TRUE)
       ELSE SendAlternative(s, c, n)

\* lines 212-283: the provider answers round 1
Round1Respond(s, resp) ==
  /\ calls[s].pc = "search"
  /\ calls[s].altIndex = 0
  /\ \E found \in { performSearchSmartFast(resp, minOf(calls[s]), maxOf(calls[s]),
                                              calls[s].targetPrice, calls[s].tolerance) } :
       \E c1 \in { [calls[s] EXCEPT !.failedCalls = calls[s].failedCalls + (IF resp.kind \in FailedKinds THEN 1 ELSE 0),
                                     !.answered = calls[s].answered + 1] } :
         \E c \in { [c1 EXCEPT !.candidates = found.value] } :
           \E match \in { round1Match(found.value, c.targetPrice, minOf(c), maxOf(c)) } :
             IF found.threw THEN Fault(s, c1, "provider")
             ELSE IF match # NoMatch THEN Finish(s, c, match, FALSE)
             ELSE Continue(s, c, 0)

\* lines 288-318: the provider answers an alternative search
AlternativeRespond(s, resp) ==
  /\ calls[s].pc = "search"
  /\ calls[s].altIndex > 0
  /\ \E found \in { performSearchSmartFast(resp, minOf(calls[s]), maxOf(calls[s]),
                                              calls[s].targetPrice, calls[s].tolerance) } :
       \E c0 \in { [calls[s] EXCEPT !.failedCalls = calls[s].failedCalls + (IF resp.kind \in FailedKinds THEN 1 ELSE 0),
                                     !.answered = calls[s].answered + 1] } :
         \E match \in { alternativeMatch(found.value, c0.targetPrice, minOf(c0), maxOf(c0)) } :
           IF found.threw THEN Fault(s, c0, "provider")
           ELSE IF match # NoMatch THEN Finish(s, c0, match, FALSE)
           ELSE /\ calls' = [calls EXCEPT ![s] = [c0 EXCEPT
                            !.pc = "delay", !.altCandidates = found.value,
                            !.seen = c0.seen \o found.value,
                            !.candidates = pooled(c0.candidates, found.value, c0.targetPrice, minOf(c0), maxOf(c0))]]
                /\ UNCHANGED <<queryCache, cacheHits, ncalls, returned, inserted, lastHit, lastEvicted, sel, pure, batch>>

\* lines 318-334: the 100 ms timer fires; stop, or go round the loop
DelayElapsed(s) ==
  /\ calls[s].pc = "delay"
  /\ \E c \in { [calls[s] EXCEPT !.delays = calls[s].delays + 1] } :
        IF stopSearching(c.altCandidates, c.targetPrice, minOf(c), maxOf(c))
          THEN Finish(s, c, finalMatch(c.candidates, c.targetPrice, minOf(c), maxOf(c)), TRUE)
          ELSE Continue(s, c, c.altIndex)

\* one resolution at a time, as the sequential batch routes call the pricer
Next ==
  \/ \E q \in Queries, st \in Settings : NoneInFlight /\ CallFault(1, q, st[1], st[2], MaxCalls)
  \/ \E q \in Queries, st \in Settings : NoneInFlight /\ CacheHit(1, q, st[1], st[2], MaxCalls)
  \/ \E q \in Queries, st \in Settings : NoneInFlight /\ CacheMiss(1, q, st[1], st[2], MaxCalls)
  \/ \E r \in Responses : Round1Respond(1, r)
  \/ \E r \in Responses : AlternativeRespond(1, r)
  \/ DelayElapsed(1)

Spec == Init /\ [][Next]_vars

MaxLiveCalls == 1

\* one resolution from its call to its return
NextLive ==
  \/ \E q \in Queries, st \in Settings : NoneInFlight /\ CallFault(1, q, st[1], st[2], MaxLiveCalls)
  \/ \E q \in Queries, st \in Settings : NoneInFlight /\ CacheMiss(1, q, st[1], st[2], MaxLiveCalls)
  \/ \E r \in Responses : Round1Respond(1, r)
  \/ \E r \in Responses : AlternativeRespond(1, r)
  \/ DelayElapsed(1)

\* every provider call completes or times out, and the 100 ms timer fires
SpecLive ==
  /\ Init /\ [][NextLive]_vars
  /\ WF_vars(\E r \in Responses : Round1Respond(1, r))
  /\ WF_vars(\E r \in Responses : AlternativeRespond(1, r))
  /\ WF_vars(DelayElapsed(1))

---------------------------------------------------------------------------
(* The cache near its limit                                                *)

fillerQuery(i) == <<"i","t","e","m"," ">> \o IntStr(i)

\* 99 earlier resolutions that found nothing: "new lamps", then "item 1" .. "item 98"
WarmRequests ==
  <<Request(queryText.lamps_lc, NullTarget, 10)>> \o
    [i \in 1..(CacheLimit - 2) |-> Request(fillerQuery(i), NullTarget, 10)]

CacheSettings == { <<NullTarget, 10>>, <<Target(10000), 10>> }

CacheResponses == { answer.timeout, answer.mixed }

InitCache == InitWith(<<>>) \/ InitWith(WarmRequests)

NextCache ==
  \/ \E q \in CacheQueries, st \in CacheSettings : NoneInFlight /\ CacheHit(1, q, st[1], st[2], MaxCacheCalls)
  \/ \E q \in CacheQueries, st \in CacheSettings : NoneInFlight /\ CacheMiss(1, q, st[1], st[2], MaxCacheCalls)
  \/ \E r \in CacheResponses : Round1Respond(1, r)
  \/ \E r \in CacheResponses : AlternativeRespond(1, r)
  \/ DelayElapsed(1)

SpecCache == InitCache /\ [][NextCache]_vars

---------------------------------------------------------------------------
(* Resolutions started together on one pricer, as Promise.all starts them  *)

\* one findBestPrice in slot s; it may start while another slot is awaiting the provider.
\* The queries are two spellings of one cache key.
NextInSlot(s) ==
  LET ConcurrentQueries == { StringQuery(queryText.lamps), StringQuery(queryText.lamps_lc) }
      ConcurrentSettings == { <<NullTarget, 10>>, <<Target(10000), 10>> }
      ConcurrentResponses == { answer.timeout, answer.mixed, answer.close }
  IN \/ \E q \in ConcurrentQueries, st \in ConcurrentSettings :
          calls[s].pc = "idle" /\ CacheHit(s, q, st[1], st[2], MaxInFlight)
     \/ \E q \in ConcurrentQueries, st \in ConcurrentSettings :
          calls[s].pc = "idle" /\ CacheMiss(s, q, st[1], st[2], MaxInFlight)
     \/ \E r \in ConcurrentResponses : Round1Respond(s, r)
     \/ \E r \in ConcurrentResponses : AlternativeRespond(s, r)
     \/ DelayElapsed(s)

NextConcurrent == NextInSlot(1) \/ NextInSlot(2)

SpecConcurrent == Init /\ [][NextConcurrent]_vars

---------------------------------------------------------------------------
(* The selector on its own: every list of up to MaxListLen hits            *)

SelectorHits ==
  { hit.amz100, hit.amz100_again, hit.wal100, hit.tgt100, hit.amz10050, hit.tgt115, hit.amz130, hit.unknown,
    hit.amz_huge, hit.bby_huge, hit.wal9980, hit.amz10090, hit.amz11550 }

MaxListLen == 3

HitLists == UNION { [1..n -> SelectorHits] : n \in 0..MaxListLen }

SelectorSettings == { <<NullTarget, 10>>, <<Target(10000), 10>>, <<Target(10000), 5>> }

candidatesOf(hits, targetPrice, tolerance) ==
  performSearchSmartFast(Response("ok", hits), minPriceOf(targetPrice, tolerance),
                         maxPriceOf(targetPrice, tolerance), targetPrice, tolerance).value

InitSel ==
  /\ queryCache = <<>>
  /\ cacheHits = 0
  /\ calls = [s \in Slots |-> IdleCall]
  /\ ncalls = 0
  /\ returned = {}
  /\ inserted = <<>>
  /\ lastHit = NoKey
  /\ lastEvicted = NoKey
  /\ \E hits \in HitLists, st \in SelectorSettings :
       sel = [IdleSel EXCEPT !.stage = "in", !.candidates = candidatesOf(hits, st[1], st[2]),
                             !.targetPrice = st[1], !.tolerance = st[2]]
  /\ pure = IdlePure
  /\ batch = IdleBatch

orderings(n) == { f \in [1..n -> 1..n] : \A i, j \in 1..n : i # j => f[i] # f[j] }

selectOf(candidates, targetPrice, tolerance) ==
  selectBestMatchSmartFast(candidates, targetPrice, minPriceOf(targetPrice, tolerance),
                           maxPriceOf(targetPrice, tolerance))

\* the candidates as performSearch of src/models/InsuranceItemPricer.js scores them
strictCandidates(candidates, targetPrice, tolerance) ==
  [i \in 1..Len(candidates) |->
     [candidates[i] EXCEPT !.priceScore = calculatePriceScoreStrict(candidates[i].price, targetPrice, tolerance)]]

selectStrictOf(candidates, targetPrice, tolerance) ==
  selectBestMatch(strictCandidates(candidates, targetPrice, tolerance), targetPrice,
                  minPriceOf(targetPrice, tolerance), maxPriceOf(targetPrice, tolerance))

\* select the list and the same candidates in another order
SelectPermuted ==
  /\ sel.stage = "in"
  /\ \E f \in orderings(Len(sel.candidates)) :
       LET variant == [i \in 1..Len(sel.candidates) |-> sel.candidates[f[i]]]
       IN sel' = [sel EXCEPT !.stage = "out", !.relation = "permuted", !.variant = variant,
                             !.best = selectOf(sel.candidates, sel.targetPrice, sel.tolerance),
                             !.bestVariant = selectOf(variant, sel.targetPrice, sel.tolerance),
                             !.strict = selectStrictOf(sel.candidates, sel.targetPrice, sel.tolerance),
                             !.strictVariant = selectStrictOf(variant, sel.targetPrice, sel.tolerance)]
  /\ UNCHANGED <<queryCache, cacheHits, calls, ncalls, returned, inserted, lastHit, lastEvicted, pure, batch>>

\* select the list and the list appended to itself
SelectDoubled ==
  /\ sel.stage = "in"
  /\ LET variant == sel.candidates \o sel.candidates
     IN sel' = [sel EXCEPT !.stage = "out", !.relation = "doubled", !.variant = variant,
                           !.best = selectOf(sel.candidates, sel.targetPrice, sel.tolerance),
                           !.bestVariant = selectOf(variant, sel.targetPrice, sel.tolerance),
                           !.strict = selectStrictOf(sel.candidates, sel.targetPrice, sel.tolerance),
                           !.strictVariant = selectStrictOf(variant, sel.targetPrice, sel.tolerance)]
  /\ UNCHANGED <<queryCache, cacheHits, calls, ncalls, returned, inserted, lastHit, lastEvicted, pure, batch>>

NextSel == SelectPermuted \/ SelectDoubled

SpecSel == InitSel /\ [][NextSel]_vars

---------------------------------------------------------------------------
(* The pure functions on their own: resolver, sanitizer, range filter      *)

\* pieces of the provider's source field; a field is two pieces
SourceParts ==
  { <<>>,
    <<"A","m","a","z","o","n">>,
    <<"A","M","A","Z","O","N",".","C","O","M">>,
    <<"W","a","l","m","a","r","t">>,
    <<" ","-"," ","R","R","X">>,
    <<"T","a","r","g","e","t">>,
    <<"T","h","e"," ","H","o","m","e"," ","D","e","p","o","t">>,
    <<"h","o","m","e","d","e","p","o","t">>,
    <<"L","o","w","e","'","s">>,
    <<"l","o","w">>,
    <<"e","s">>,
    <<"B","e","s","t"," ","B","u","y">>,
    <<"B","e","s","t","B","u","y">>,
    <<"W","a","y","f","a","i","r">>,
    <<"C","o","s","t","c","o">>,
    <<"O","v","e","r","s","t","o","c","k",".","c","o","m">>,
    <<"R","a","n","d","o","m","S","t","o","r","e"," ","I","n","c",".">>,
    <<" ","-"," ","S","e","l","l","e","r">>,
    <<"H","o","m","e">>,
    <<" ","D","e","p","o","t">> }

SourceFields == { a \o b : a, b \in SourceParts }

MaxTextLen == 5

\* every text of up to MaxTextLen characters: a letter, whitespace, quotes
Texts == UNION { [1..n -> {"a", " ", "\t", "'", "\""}] : n \in 0..MaxTextLen }

\* the prices around the two exact bounds of the window, in cents
FilterPrices(target, tolerance) ==
  { p \in { (target * (100 + s * tolerance)) \div 100 + d : s \in {-1, 1}, d \in {-1, 0, 1} } : p > 0 }

InitPure ==
  /\ queryCache = <<>>
  /\ cacheHits = 0
  /\ calls = [s \in Slots |-> IdleCall]
  /\ ncalls = 0
  /\ returned = {}
  /\ inserted = <<>>
  /\ lastHit = NoKey
  /\ lastEvicted = NoKey
  /\ sel = IdleSel
  /\ batch = IdleBatch
  /\ \/ \E raw \in SourceFields : pure = [IdlePure EXCEPT !.stage = "in", !.fn = "resolve", !.text = raw]
     \/ \E raw \in Texts : pure = [IdlePure EXCEPT !.stage = "in", !.fn = "sanitize", !.text = raw]
     \/ \E t \in {5000, 10000}, tol \in {0, 5, 10, 15, 20, 100, 150} :
          \E p \in FilterPrices(t, tol) :
            pure = [IdlePure EXCEPT !.stage = "in", !.fn = "range", !.price = p,
                                    !.targetPrice = Target(t), !.tolerance = tol]
     \/ \E hits \in HitLists, st \in SelectorSettings :
          pure = [IdlePure EXCEPT !.stage = "in", !.fn = "optimized", !.hits = hits,
                                  !.targetPrice = st[1], !.tolerance = st[2]]

\* the resolver of both pricers on one source field
Resolve ==
  /\ pure.stage = "in" /\ pure.fn = "resolve"
  /\ pure' = [pure EXCEPT !.stage = "out", !.domain = isTrustedSourceFast(pure.text),
                          !.optimizedDomain = getTrustedSourceFast(pure.text)]
  /\ UNCHANGED <<queryCache, cacheHits, calls, ncalls, returned, inserted, lastHit, lastEvicted, sel, batch>>

\* sanitizeQuery, and sanitizeQuery of its own output
Sanitize ==
  /\ pure.stage = "in" /\ pure.fn = "sanitize"
  /\ pure' = [pure EXCEPT !.stage = "out", !.once = sanitizeQuery(pure.text),
                          !.twice = sanitizeQuery(sanitizeQuery(pure.text))]
  /\ UNCHANGED <<queryCache, cacheHits, calls, ncalls, returned, inserted, lastHit, lastEvicted, sel, batch>>

\* the window of findBestPrice and the isInRange flag performSearchSmartFast gives
\* a trusted hit at the price
RangeFilter ==
  /\ pure.stage = "in" /\ pure.fn = "range"
  /\ LET found == candidatesOf(<<Hit(PriceNum(pure.price), sourceText.amazon, NoLink, <<>>, titleText.lamp)>>,
                               pure.targetPrice, pure.tolerance)
     IN pure' = [pure EXCEPT !.stage = "out", !.isInRange = found[1].isInRange,
                             !.min = minPriceOf(pure.targetPrice, pure.tolerance),
                             !.max = maxPriceOf(pure.targetPrice, pure.tolerance)]
  /\ UNCHANGED <<queryCache, cacheHits, calls, ncalls, returned, inserted, lastHit, lastEvicted, sel, batch>>

\* findBestPrice of the optimized pricer on one provider answer
OptimizedFind ==
  /\ pure.stage = "in" /\ pure.fn = "optimized"
  /\ pure' = [pure EXCEPT !.stage = "out",
                          !.result = findBestPriceOptimized(Response("ok", pure.hits), pure.targetPrice,
                                                            pure.tolerance)]
  /\ UNCHANGED <<queryCache, cacheHits, calls, ncalls, returned, inserted, lastHit, lastEvicted, sel, batch>>

NextPure == Resolve \/ Sanitize \/ RangeFilter \/ OptimizedFind

SpecPure == InitPure /\ [][NextPure]_vars

---------------------------------------------------------------------------
(* The routes: batch processing and single items                           *)

\* every pricer constructor throws when process.env.SERPAPI_KEY is not set
constructorThrows(serpApiKey) == ~serpApiKey

\* a route module that keeps an instance whatever the constructor does
initPricerAlways(serpApiKey) == TRUE

\* the try/catch around `new InsuranceItemPricer()` at module load: TRUE when the
\* variable insuranceItemPricer holds an instance
initPricer(serpApiKey) == ~constructorThrows(serpApiKey)

MaxRows == 3

\* a row by what the handler does with it: no 'Item #'; no search terms (or, in the
\* optimized route, skipped); a numeric description cell, on which trim or
\* toLowerCase throws; a row that is searched
RowLists == UNION { [1..n -> {"noItem", "noTerms", "throws", "search"}] : n \in 0..MaxRows }

\* processedRows.push({...row, 'Search Status': status})
pushRow(b, i, status) == [b EXCEPT !.processedRows = Append(@, [row |-> i, status |-> status])]

\* insuranceItemPricer.findBestPrice(...) is called for row i
startCall(b, i) ==
  [b EXCEPT !.inFlight = @ \cup {i}, !.started = @ + 1, !.delayed = FALSE,
            !.backToBack = @ \/ (b.started > 0 /\ ~b.delayed)]

\* a per-row failure that ends the request in the handler's outer catch block
rowErrorAborts(b, i) ==
  [b EXCEPT !.pc = "done", !.response = [NoReply EXCEPT !.status = 500]]

\* the per-row catch block of the loops: count, write the error row, continue
rowError(b, i) ==
  [pushRow([b EXCEPT !.errorCount = @ + 1], i, "Processing Error") EXCEPT !.index = @ + 1]

\* 'Search Status' of the row written for a result
statusOf(found) == IF found THEN "Found" ELSE "No Results Found"

BatchUnchanged ==
  UNCHANGED <<queryCache, cacheHits, calls, ncalls, returned, inserted, lastHit, lastEvicted, sel, pure>>

InitBatch ==
  /\ queryCache = <<>>
  /\ cacheHits = 0
  /\ calls = [s \in Slots |-> IdleCall]
  /\ ncalls = 0
  /\ returned = {}
  /\ inserted = <<>>
  /\ lastHit = NoKey
  /\ lastEvicted = NoKey
  /\ sel = IdleSel
  /\ pure = IdlePure
  /\ \E key \in BOOLEAN : batch = [IdleBatch EXCEPT !.serpApiKey = key, !.pricer = initPricer(key)]

\* POST /api/process-csv up to the loop: the guard, then the counters at zero
BatchRequest(route, rows) ==
  /\ batch.pc = "idle"
  /\ batch' = IF ~batch.pricer
                THEN [batch EXCEPT !.pc = "done", !.route = route, !.rows = rows,
                                   !.response = [NoReply EXCEPT !.status = 500]]
                ELSE [batch EXCEPT !.pc = "loop", !.route = route, !.rows = rows, !.index = 1]
  /\ BatchUnchanged

\* POST /api/process-item and /single-item-test: the guard, then one call
ItemRequest ==
  /\ batch.pc = "idle"
  /\ batch' = IF ~batch.pricer
                THEN [batch EXCEPT !.pc = "done", !.route = "item",
                                   !.response = [NoReply EXCEPT !.status = 500]]
                ELSE [startCall(batch, 1) EXCEPT !.pc = "await", !.route = "item", !.index = 1]
  /\ BatchUnchanged

\* one iteration of the sequential loops, up to `await findBestPrice` or to `continue`
RowStep ==
  /\ batch.pc = "loop" /\ batch.route \in {"sequential", "optimized"}
  /\ batch.index <= Len(batch.rows)
  /\ LET i == batch.index
         counted == [batch EXCEPT !.totalItems = @ + 1]
     IN batch' = CASE batch.rows[i] = "noItem" -> [batch EXCEPT !.index = @ + 1]
                   [] batch.rows[i] = "noTerms" ->
                        [pushRow(counted, i, "No Search Terms") EXCEPT !.index = @ + 1]
                   [] batch.rows[i] = "throws" -> rowError(counted, i)
                   [] batch.rows[i] = "search" -> [startCall(counted, i) EXCEPT !.pc = "await"]
  /\ BatchUnchanged

\* csvData.map(async (row, index) => ...): every callback runs to its first await
StartAll ==
  /\ batch.pc = "loop" /\ batch.route = "promiseAll"
  /\ LET rows == batch.rows
         searched == { i \in 1..Len(rows) : rows[i] = "search" }
     IN batch' = [batch EXCEPT
                    !.pc = "await",
                    !.totalItems = Cardinality({ i \in 1..Len(rows) : rows[i] # "noItem" }),
                    !.errorCount = Cardinality({ i \in 1..Len(rows) : rows[i] = "throws" }),
                    !.results = [i \in 1..Len(rows) |->
                                   CASE rows[i] = "noItem" -> "null"
                                     [] rows[i] = "noTerms" -> "No Search Terms"
                                     [] rows[i] = "throws" -> "Processing Error"
                                     [] rows[i] = "search" -> "pending"],
                    !.inFlight = searched,
                    !.started = Cardinality(searched),
                    !.backToBack = Cardinality(searched) >= 2]
  /\ BatchUnchanged

\* findBestPrice of row i returns; the code after the await
PricerReturns(i, found) ==
  /\ batch.pc = "await" /\ i \in batch.inFlight
  /\ LET b == [batch EXCEPT !.inFlight = @ \ {i}, !.successfulFinds = @ + (IF found THEN 1 ELSE 0)]
     IN batch' =
          CASE batch.route = "promiseAll" -> [b EXCEPT !.results[i] = statusOf(found)]
            [] batch.route = "item" ->
                 [b EXCEPT !.pc = "done", !.response = [NoReply EXCEPT !.status = 200]]
            [] batch.route = "sequential" ->
                 IF i < Len(batch.rows)
                   THEN [pushRow(b, i, statusOf(found)) EXCEPT !.pc = "delay"]
                   ELSE [pushRow(b, i, statusOf(found)) EXCEPT !.pc = "loop", !.index = @ + 1]
            [] batch.route = "optimized" ->
                 [pushRow(b, i, statusOf(found)) EXCEPT !.pc = "loop", !.index = @ + 1]
  /\ BatchUnchanged

\* `await delay(300)` is over
RowDelayElapsed ==
  /\ batch.pc = "delay"
  /\ batch' = [batch EXCEPT !.pc = "loop", !.index = @ + 1, !.delayed = TRUE]
  /\ BatchUnchanged

\* after the loop, or after Promise.all and the filter of null rows: the summary
Respond ==
  /\ \/ batch.pc = "loop" /\ batch.route \in {"sequential", "optimized"} /\ batch.index > Len(batch.rows)
     \/ batch.pc = "await" /\ batch.route = "promiseAll" /\ batch.inFlight = {}
  /\ LET kept == SelectSeq([i \in 1..Len(batch.rows) |-> i], LAMBDA i : batch.results[i] # "null")
         processedRows == IF batch.route = "promiseAll"
                            THEN [k \in 1..Len(kept) |-> [row |-> kept[k], status |-> batch.results[kept[k]]]]
                            ELSE batch.processedRows
     IN batch' = [batch EXCEPT
                    !.pc = "done", !.processedRows = processedRows,
                    !.response = [status |-> 200, totalItems |-> batch.totalItems,
                                  totalRowsProcessed |-> IF batch.route = "promiseAll" THEN 0
                                                         ELSE Len(processedRows),
                                  results |-> processedRows]]
  /\ BatchUnchanged

NextBatch ==
  \/ \E route \in {"promiseAll", "sequential", "optimized"}, rows \in RowLists : BatchRequest(route, rows)
  \/ ItemRequest
  \/ RowStep
  \/ StartAll
  \/ \E i \in 1..MaxRows, found \in BOOLEAN : PricerReturns(i, found)
  \/ RowDelayElapsed
  \/ Respond

SpecBatch == InitBatch /\ [][NextBatch]_vars

---------------------------------------------------------------------------
(* Properties                                                              *)

CanonicalDomains ==
  { "amazon.com", "walmart.com", "target.com", "homedepot.com", "lowes.com",
    "bestbuy.com", "wayfair.com", "costco.com", "overstock.com" }

\* price within target*(1 - tolerance/100) .. target*(1 + tolerance/100), lower bound not below 0
inCallerWindow(price, targetPrice, tolerance) ==
  /\ price * 100 >= (IF tolerance >= 100 THEN 0 ELSE targetPrice.v * (100 - tolerance))
  /\ price * 100 <= targetPrice.v * (100 + tolerance)

\* price within 20% of the target
inWidenedWindow(price, targetPrice) == price * 5 >= targetPrice.v * 4 /\ price * 5 <= targetPrice.v * 6

\* the rounds of a resolution in which no round ends the search: 0, then the alternatives not skipped
allRounds(c) ==
  <<0>> \o SelectSeq(<<1, 2, 3>>, LAMBDA i :
             Len(alternativeQueriesOf(sanitizedOf(c))[i]) >= 5
               /\ alternativeQueriesOf(sanitizedOf(c))[i] # sanitizedOf(c))

\* provider calls of the resolution that have been answered
answeredCalls(c) == c.providerCalls - (IF c.pc = "search" THEN 1 ELSE 0)

\* C1: a findBestPrice call whose request has the cache key of an earlier call that
\* returned normally (equal lower-cased 50-character prefix, target and tolerance),
\* made while that entry is still in the cache, returns the response of the earlier
\* call and issues no provider call
CacheHitDeterminism ==
  \A s \in Slots :
    (calls[s].pc # "idle" /\ calls[s].query.str /\ calls[s].prior # NoResponse)
      => /\ calls[s].providerCalls = 0
         /\ calls[s].pc = "done"
         /\ calls[s].result = calls[s].prior

\* a hit on a found response that was cached under another spelling of the query
CacheHitWitness ==
  \E s \in Slots :
    /\ calls[s].pc = "done" /\ calls[s].cacheHit /\ calls[s].result.found
    /\ calls[s].prior = calls[s].result
    /\ calls[s].providerCalls = 0
    /\ \E e \in returned : e.value = calls[s].result /\ e.query # calls[s].query.s
                           /\ sameRequest(e, calls[s].query.s, calls[s].targetPrice, calls[s].tolerance)

\* C2: with a target price set, a found:true result never carries a price that lies
\* outside both the caller's window [min, max] and the window of 20% around the target
HardFilter ==
  \A s \in Slots :
    (calls[s].pc = "done" /\ Truthy(calls[s].targetPrice) /\ calls[s].result.found)
      => \/ inCallerWindow(calls[s].result.price, calls[s].targetPrice, calls[s].tolerance)
         \/ inWidenedWindow(calls[s].result.price, calls[s].targetPrice)

\* a result taken from the widened window: found, outside [min, max]
HardFilterWitness ==
  \E s \in Slots :
    /\ calls[s].pc = "done" /\ Truthy(calls[s].targetPrice) /\ calls[s].result.found
    /\ ~calls[s].cacheHit
    /\ ~inCallerWindow(calls[s].result.price, calls[s].targetPrice, calls[s].tolerance)

\* hits with a retailer that resolves to a trusted domain and a price in 0.01 .. 99999
GoodHits == { hit.amz100, hit.wal100, hit.tgt100, hit.tgt115, hit.amz130 }

\* hits with an unknown or missing retailer, or a missing, non-numeric, zero or negative price
BadHits == { hit.unknown, hit.nosource, hit.noprice, hit.nan, hit.zero, hit.neg }

hasBadHit(resp) == \E i \in 1..Len(resp.hits) : resp.hits[i] \in BadHits

hasGoodHit(resp) == \E i \in 1..Len(resp.hits) : resp.hits[i] \in GoodHits

trustedAndPriced(c) == c.source \in CanonicalDomains /\ c.price > 0

\* C3: every found:true result, and every candidate, has one of the nine canonical
\* domains as source and a price > 0; a hit with an unknown retailer or a bad price
\* does not abort the resolution: the good hits of the same answer are still used
AllowList ==
  /\ [](\A s \in Slots :
          /\ (calls[s].pc = "done" /\ calls[s].result.found) => trustedAndPriced(calls[s].result)
          /\ \A i \in 1..Len(calls[s].candidates) : trustedAndPriced(calls[s].candidates[i])
          /\ \A i \in 1..Len(calls[s].altCandidates) : trustedAndPriced(calls[s].altCandidates[i]))
  /\ [][\A r \in Responses :
          (/\ calls[1].pc = "search" /\ calls[1].altIndex = 0 /\ ~Truthy(calls[1].targetPrice)
           /\ r.kind = "ok" /\ hasBadHit(r) /\ hasGoodHit(r)
           /\ Round1Respond(1, r))
            => (calls'[1].pc = "done" /\ calls'[1].result.found)]_vars

\* found from an answer whose first hits are an unknown retailer and a hit without price
AllowListWitness ==
  \E s \in Slots :
    /\ calls[s].pc = "done" /\ calls[s].result.found /\ ~calls[s].cacheHit
    /\ ~Truthy(calls[s].targetPrice)
    /\ calls[s].providerCalls = 1
    /\ calls[s].result.source = "walmart.com"

\* C4: the selector returns the same candidate (price, source, url, description)
\* for every order of the same candidates
SelectorOrderIndependent ==
  (sel.stage = "out" /\ sel.relation = "permuted")
    => /\ sel.bestVariant.price = sel.best.price
       /\ sel.bestVariant.source = sel.best.source
       /\ sel.bestVariant.url = sel.best.url
       /\ sel.bestVariant.description = sel.best.description

\* C5: select(L) = select(L ++ L) for selectBestMatchSmartFast and for selectBestMatch,
\* and the winner is the first candidate of L with its (price, domain) pair:
\* duplicates are dropped, the first occurrence is kept
DedupIdempotent ==
  (sel.stage = "out" /\ sel.relation = "doubled")
    => /\ sel.bestVariant = sel.best
       /\ sel.strictVariant = sel.strict
       /\ \A w \in {sel.best, sel.strict} \ {NoMatch} :
            \E i \in 1..Len(sel.candidates) :
              /\ sel.candidates[i].url = w.url
              /\ sel.candidates[i].price = w.price /\ sel.candidates[i].source = w.source
              /\ \A j \in 1..(i - 1) : ~(sel.candidates[j].price = w.price
                                          /\ sel.candidates[j].source = w.source)

\* the winner's (price, domain) pair occurs again later in the list, under another url
DedupWitness ==
  /\ sel.stage = "out" /\ sel.relation = "doubled" /\ sel.best # NoMatch /\ sel.strict # NoMatch
  /\ \E j \in 1..Len(sel.candidates) :
       /\ sel.candidates[j].price = sel.best.price
       /\ sel.candidates[j].source = sel.best.source
       /\ sel.candidates[j].url # sel.best.url

\* C6: whatever the provider does in any round, findBestPrice answers with a structured
\* object and no exception reaches its catch block; a failed provider call adds no
\* candidate, and when every call fails all rounds are tried and not-found is reported
ProviderFailuresNotFatal ==
  \A s \in Slots :
    /\ calls[s].pc = "done" => calls[s].result.found \in BOOLEAN
    /\ (calls[s].pc = "done" /\ calls[s].query.str) => (calls[s].normal /\ calls[s].result.error = "")
    /\ (answeredCalls(calls[s]) > 0 /\ calls[s].failedCalls = answeredCalls(calls[s]))
         => /\ calls[s].candidates = <<>>
            /\ calls[s].pc = "done" =>
                 /\ ~calls[s].result.found
                 /\ calls[s].result.message.text # ""
                 /\ calls[s].sent = allRounds(calls[s])

\* a resolution that went on after a failed provider call and found a price in a later round
ProviderFailuresWitness ==
  \E s \in Slots :
    /\ calls[s].pc = "done" /\ calls[s].result.found
    /\ calls[s].failedCalls > 0
    /\ calls[s].providerCalls > calls[s].failedCalls

insertedAt(k) == CHOOSE i \in 1..Len(inserted) : inserted[i] = k /\ \A j \in (i + 1)..Len(inserted) : inserted[j] # k

\* C8: a cache hit leaves the cache as it is; an insertion into a full cache evicts
\* exactly one entry, the one inserted earliest among those present, and keeps the
\* new entry
FifoEviction ==
  [][/\ (ncalls' = ncalls + 1 /\ calls'[1].cacheHit) => queryCache' = queryCache
     /\ (Len(queryCache) = 100 /\ Len(inserted') = Len(inserted) + 1) =>
          /\ Cardinality(cacheKeys(queryCache) \ cacheKeys(queryCache')) = 1
          /\ inserted'[Len(inserted')] \in cacheKeys(queryCache')
     /\ \A k \in cacheKeys(queryCache) \ cacheKeys(queryCache') :
          \A other \in cacheKeys(queryCache) : insertedAt(k) <= insertedAt(other)]_vars

\* the entry read most recently is the one that was evicted
FifoWitness == lastHit # NoKey /\ lastEvicted = lastHit /\ ~cacheHas(queryCache, lastHit)

\* C9: when the candidates of round 1 hold a satisfying one (with a target: a price in
\* [min, max]; without: an in-range candidate), findBestPrice returns the selector's
\* winner after exactly one provider call
EarlyExit ==
  [][\A r \in Responses :
       LET c == calls[1]
           cands == performSearchSmartFast(r, minOf(c), maxOf(c), c.targetPrice, c.tolerance).value
           satisfying ==
             IF Truthy(c.targetPrice)
               THEN \E i \in 1..Len(cands) : inCallerWindow(cands[i].price, c.targetPrice, c.tolerance)
               ELSE \E i \in 1..Len(cands) : cands[i].price <= 99999 * 100
           winner == selectBestMatchSmartFast(cands, c.targetPrice, minOf(c), maxOf(c))
       IN (c.pc = "search" /\ c.altIndex = 0 /\ satisfying /\ Round1Respond(1, r))
            => /\ calls'[1].pc = "done"
               /\ calls'[1].providerCalls = 1
               /\ calls'[1].sent = <<0>>
               /\ calls'[1].result.found
               /\ calls'[1].result.price = winner.price
               /\ calls'[1].result.source = winner.source
               /\ calls'[1].result.url = winner.url
               /\ calls'[1].result.description = winner.description]_vars

\* an early exit of a query that has three fallback queries left
EarlyExitWitness ==
  \E s \in Slots :
    /\ calls[s].pc = "done" /\ calls[s].result.found /\ ~calls[s].cacheHit
    /\ calls[s].providerCalls = 1
    /\ Len(allRounds(calls[s])) = 4

\* C10: a query whose sanitized form is empty is answered found:false without any
\* provider call
EmptyQueryNoSearch ==
  \A s \in Slots :
    (calls[s].pc # "idle" /\ calls[s].query.str /\ sanitizeQuery(calls[s].query.s) = <<>>)
      => /\ calls[s].providerCalls = 0
         /\ calls[s].pc = "done"
         /\ ~calls[s].result.found

\* C11: when findBestPrice has returned a result that it did not read from the
\* cache, the cache holds that result (under the call's key, when the call has one)
TerminalResultCached ==
  \A s \in Slots :
    (calls[s].pc = "done" /\ ~calls[s].cacheHit)
      => /\ \E i \in 1..Len(queryCache) : queryCache[i].value = calls[s].result
         /\ calls[s].query.str
              => /\ cacheHas(queryCache, keyOf(calls[s]))
                 /\ cacheGet(queryCache, keyOf(calls[s])) = calls[s].result

\* C16: without a target the selector returns the lowest-priced candidate of the
\* first non-empty tier among Amazon in range, any trusted domain in range, Amazon,
\* any trusted candidate; an in-range Amazon candidate beats a cheaper in-range
\* candidate of another domain
TierSelection ==
  (sel.stage = "out" /\ ~Truthy(sel.targetPrice))
    => LET all == SeqToSet(sel.candidates)
           tierA == { c \in all : c.source = "amazon.com" /\ c.price <= 99999 * 100 }
           tierB == { c \in all : c.price <= 99999 * 100 }
           tierC == { c \in all : c.source = "amazon.com" }
           tier == IF tierA # {} THEN tierA ELSE IF tierB # {} THEN tierB
                   ELSE IF tierC # {} THEN tierC ELSE all
       IN /\ (all = {}) <=> (sel.best = NoMatch)
          /\ all # {} => /\ \E c \in tier : /\ c.price = sel.best.price /\ c.source = sel.best.source
                                             /\ c.url = sel.best.url
                         /\ \A c \in tier : sel.best.price <= c.price
          /\ tierA # {} => sel.best.source = "amazon.com"

\* an in-range Amazon candidate wins although another domain's in-range candidate is cheaper
TierSelectionWitness ==
  /\ sel.stage = "out" /\ ~Truthy(sel.targetPrice)
  /\ sel.best.source = "amazon.com" /\ sel.best.price <= 99999 * 100
  /\ \E i \in 1..Len(sel.candidates) :
       /\ sel.candidates[i].source # "amazon.com"
       /\ sel.candidates[i].price < sel.best.price

\* without a target and with every candidate above 99999, the cheapest Amazon candidate
\* wins over a cheaper candidate of another domain
TierAmazonOutOfRangeWitness ==
  /\ sel.stage = "out" /\ ~Truthy(sel.targetPrice)
  /\ sel.best.source = "amazon.com" /\ sel.best.price > 99999 * 100
  /\ \E i \in 1..Len(sel.candidates) : sel.candidates[i].price < sel.best.price

RangeFilterExact ==
  (pure.stage = "out" /\ pure.fn = "range")
    => /\ pure.isInRange <=> inCallerWindow(pure.price, pure.targetPrice, pure.tolerance)
       /\ 0 <= pure.min /\ pure.min <= pure.targetPrice.v * 100 /\ pure.targetPrice.v * 100 <= pure.max

\* C19: the resolver answers null exactly for an empty field and for a field that
\* contains none of the fragments; otherwise it answers the domain of the exact
\* table entry or else of the first fragment, in the check order, that the
\* lower-cased field contains; "Walmart - RRX" gives walmart.com and
\* "RandomStore Inc." gives null; both resolvers agree
ResolverContract ==
  (pure.stage = "out" /\ pure.fn = "resolve")
    => LET lower == toLowerCase(pure.text)
           fragments == { i \in 1..Len(containsChecks) : includes(lower, containsChecks[i].fragment) }
           exact == { d \in 1..Len(trustedSources) :
                        \E a \in 1..Len(trustedSources[d].aliases) :
                          toLowerCase(trustedSources[d].aliases[a]) = lower }
           first == CHOOSE i \in fragments : \A j \in fragments : i <= j
       IN /\ (pure.domain = NoDomain) <=> (pure.text = <<>> \/ fragments = {})
          /\ pure.domain # NoDomain
               => pure.domain = IF exact # {} THEN trustedSources[CHOOSE d \in exact : TRUE].domain
                                ELSE containsChecks[first].domain
          /\ pure.domain \in CanonicalDomains \cup {NoDomain}
          /\ pure.optimizedDomain = pure.domain
          /\ pure.text = <<"W","a","l","m","a","r","t"," ","-"," ","R","R","X">> => pure.domain = "walmart.com"
          /\ pure.text = <<"R","a","n","d","o","m","S","t","o","r","e"," ","I","n","c",".">>
               => pure.domain = NoDomain

\* a field that is in no table and contains two fragments: the earlier check wins
ResolverWitness ==
  /\ pure.stage = "out" /\ pure.fn = "resolve"
  /\ pure.text = <<"T","a","r","g","e","t","W","a","l","m","a","r","t">>
  /\ pure.domain = "walmart.com"

\* C20: the sanitized text has no quote, no two adjacent whitespace characters and no
\* whitespace at either end; sanitizing it again changes nothing; the empty text
\* gives the empty text
SanitizerPostcondition ==
  (pure.stage = "out" /\ pure.fn = "sanitize")
    => /\ \A i \in 1..Len(pure.once) : pure.once[i] \notin QuoteChars
       /\ \A i \in 1..(Len(pure.once) - 1) :
            ~(pure.once[i] \in WhitespaceChars /\ pure.once[i + 1] \in WhitespaceChars)
       /\ pure.once # <<>> => (pure.once[1] \notin WhitespaceChars
                                 /\ pure.once[Len(pure.once)] \notin WhitespaceChars)
       /\ pure.twice = pure.once
       /\ pure.text = <<>> => pure.once = <<>>

\* the rows of the request that have an 'Item #', in input order
itemRows(rows) == SelectSeq([i \in 1..Len(rows) |-> i], LAMBDA i : rows[i] # "noItem")

\* C12: in every batch route at most one row's findBestPrice call is in flight
OneCallInFlight == Cardinality(batch.inFlight) <= 1

\* C13: in every batch route a delay elapses between one row's findBestPrice call and
\* the next row's
DelayBetweenCalls == ~batch.backToBack

NoCredentialNoCall ==
  ~batch.serpApiKey
    => /\ constructorThrows(batch.serpApiKey)
       /\ ~batch.pricer
       /\ batch.started = 0 /\ batch.inFlight = {}
       /\ batch.pc \in {"idle", "done"}
       /\ batch.pc = "done" => batch.response.status = 500

\* a batch request with a searchable row, refused for lack of the credential
NoCredentialWitness ==
  /\ ~batch.serpApiKey /\ batch.pc = "done" /\ batch.response.status = 500
  /\ \E i \in 1..Len(batch.rows) : batch.rows[i] = "search"

\* C21: with a target, the optimized pricer answers found:false when no hit of a
\* trusted source has a price inside [min, max], and never answers found:true with a
\* price outside the window
OptimizedHardFilter ==
  (pure.stage = "out" /\ pure.fn = "optimized" /\ Truthy(pure.targetPrice))
    => /\ pure.result.found => inCallerWindow(pure.result.price, pure.targetPrice, pure.tolerance)
       /\ (\A i \in 1..Len(pure.hits) :
             ~(/\ isTrustedSourceFast(pure.hits[i].source) # NoDomain
               /\ pure.hits[i].extracted_price.t = "num"
               /\ pure.hits[i].extracted_price.n > 0
               /\ inCallerWindow(pure.hits[i].extracted_price.n, pure.targetPrice, pure.tolerance)))
            => ~pure.result.found

\* the query string of round k of a resolution: 0 is the sanitized query
roundQuery(c, k) == IF k = 0 THEN sanitizedOf(c) ELSE alternativeQueriesOf(sanitizedOf(c))[k]

\* C22: within one resolution no query string is sent to the provider twice, and no
\* fallback that is sent is shorter than 5 characters
NoQuerySentTwice ==
  \A s \in Slots :
    calls[s].query.str
      => /\ \A i, j \in 1..Len(calls[s].sent) :
              i # j => roundQuery(calls[s], calls[s].sent[i]) # roundQuery(calls[s], calls[s].sent[j])
         /\ \A i \in 2..Len(calls[s].sent) : Len(roundQuery(calls[s], calls[s].sent[i])) >= 5

\* C23: within one resolution a delay elapses between every two consecutive provider
\* calls, the first fallback included
DelayBetweenRounds ==
  \A s \in Slots : calls[s].providerCalls >= 1 => calls[s].delays >= calls[s].providerCalls - 1

\* C24: a fallback round stops the search under the acceptance policy of round 1: with
\* no target, after a fallback round that yielded an in-range candidate (Amazon or not)
\* no further provider call is issued
FallbackAcceptance ==
  [][\A s \in Slots :
       ( /\ calls[s].pc = "delay"
         /\ ~Truthy(calls[s].targetPrice)
         /\ \E i \in 1..Len(calls[s].altCandidates) : calls[s].altCandidates[i].isInRange )
       => calls'[s].pc # "search"]_vars

\* C25: when the resolution ends in the final selection, its outcome is the selector
\* applied once to the candidates of all rounds that were executed, in round order:
\* found with that winner, or not found when the selector returns none
PooledFinalSelection ==
  \A s \in Slots :
    (calls[s].pc = "done" /\ calls[s].final)
      => calls[s].result =
           buildResponse(finalMatch(calls[s].seen, calls[s].targetPrice, minOf(calls[s]), maxOf(calls[s])),
                         calls[s].targetPrice, calls[s].tolerance, minOf(calls[s]), maxOf(calls[s]))

\* without a target the final selection returns a candidate after three rounds
PooledFinalSelectionWitness ==
  \E s \in Slots :
    /\ calls[s].pc = "done" /\ calls[s].final /\ calls[s].result.found
    /\ ~Truthy(calls[s].targetPrice)
    /\ Len(calls[s].sent) >= 3

\* with a target the final selection finds none although the rounds returned candidates
PooledFinalSelectionTargetWitness ==
  \E s \in Slots :
    /\ calls[s].pc = "done" /\ calls[s].final /\ ~calls[s].result.found
    /\ Truthy(calls[s].targetPrice)
    /\ Len(calls[s].sent) >= 2 /\ Len(calls[s].seen) > Len(calls[s].candidates)

\* C26: when two findBestPrice calls with the same cache key overlap in time on one
\* pricer, at most one of them issues provider calls, and both return the same result
SynchronizedCache ==
  \A s, t \in Slots :
    (s # t /\ calls[t].overlapped /\ calls[s].pc # "idle" /\ keyOf(calls[s]) = keyOf(calls[t]))
      => /\ calls[s].providerCalls = 0 \/ calls[t].providerCalls = 0
         /\ (calls[s].pc = "done" /\ calls[t].pc = "done") => calls[s].result = calls[t].result

\* two overlapping calls with the same key return the same result (the second conjunct of
\* SynchronizedCache on its own)
SameResultWhenOverlapping ==
  \A s, t \in Slots :
    (s # t /\ calls[t].overlapped /\ keyOf(calls[s]) = keyOf(calls[t])
       /\ calls[s].pc = "done" /\ calls[t].pc = "done")
      => calls[s].result = calls[t].result

\* the candidates of the selector's input that lie in the caller's window
inWindowSet ==
  { c \in SeqToSet(sel.candidates) :
      inWindow(c, minPriceOf(sel.targetPrice, sel.tolerance), maxPriceOf(sel.targetPrice, sel.tolerance)) }

lowestInWindow == CHOOSE m \in { c.price : c \in inWindowSet } : \A c \in inWindowSet : m <= c.price

closeSet == { c \in SeqToSet(sel.candidates) : inClose(c, sel.targetPrice) }

lowestClose == CHOOSE m \in { c.price : c \in closeSet } : \A c \in closeSet : m <= c.price

\* C28: in the widened branch (no candidate in the caller's window, some within 20% of the
\* target) the ordering is that of the in-window branch: an Amazon candidate less than 1
\* above the lowest price wins over the cheaper candidates of other domains
WidenedOrdering ==
  (sel.stage = "out" /\ Truthy(sel.targetPrice) /\ inWindowSet = {} /\ closeSet # {})
    => /\ sel.best.price - lowestClose < CloseThreshold
       /\ (\E c \in closeSet : c.isAmazon /\ c.price - lowestClose < CloseThreshold)
            <=> sel.best.isAmazon

MaxProviderCalls == 4

\* C29: one findBestPrice issues at most 4 provider calls, one after another (a call is
\* sent only when every earlier one has been answered), and it terminates provided each
\* provider call completes or times out
BoundedProviderCost ==
  /\ [](\A s \in Slots :
          /\ calls[s].providerCalls <= MaxProviderCalls
          /\ calls[s].providerCalls - calls[s].answered \in {0, 1}
          /\ calls[s].pc = "done" => calls[s].answered = calls[s].providerCalls)
  /\ \A s \in Slots : (calls[s].pc \in {"search", "delay"}) ~> (calls[s].pc = "done")

\* a resolution that returned after round 1 and three fallback rounds
BoundedProviderCostWitness ==
  \E s \in Slots :
    /\ calls[s].pc = "done" /\ calls[s].normal
    /\ calls[s].providerCalls = MaxProviderCalls /\ calls[s].answered = MaxProviderCalls

\* C30: a found:false result produced because every provider call of the resolution
\* timed out or failed is cached like any other result, and a later call with the same
\* cache key returns found:false from the cache without any provider call
NegativeCaching ==
  \A s \in Slots :
    /\ (calls[s].pc = "done" /\ calls[s].query.str /\ ~calls[s].cacheHit /\ allCallsFailed(calls[s]))
         => /\ calls[s].normal /\ ~calls[s].result.found
            /\ cacheHas(queryCache, keyOf(calls[s]))
            /\ cacheGet(queryCache, keyOf(calls[s])) = calls[s].result
    /\ \A e \in returned :
         (calls[s].pc = "done" /\ calls[s].cacheHit /\ e.key = keyOf(calls[s]) /\ e.failed)
           => /\ ~calls[s].result.found
              /\ calls[s].result = e.value
              /\ calls[s].providerCalls = 0

\* a call answered found:false from the cache entry that a resolution with only failed
\* provider calls left there
NegativeCachingWitness ==
  \E s \in Slots :
    /\ calls[s].pc = "done" /\ calls[s].cacheHit /\ ~calls[s].result.found
    /\ calls[s].providerCalls = 0
    /\ \E e \in returned : e.key = keyOf(calls[s]) /\ e.failed /\ e.value = calls[s].result

====
